---- MODULE Spec2Model ----
(***************************************************************************)
(* paowa-bot: the dispatch, permission-resolution and plugin-lifecycle     *)
(* engine.                                                                 *)
(*                                                                         *)
(*   PermSpec  the permission store (core/permission.ts): the management   *)
(*             operations and checkPermission.                             *)
(*   CtxSpec   one Context's reply buffer and commit (Context.reply), used  *)
(*             by a command handler and then by the dispatcher.            *)
(*   DispatchSpec  the dispatcher over a fixed set of plugins, with one     *)
(*             registered middleware.                                      *)
(*   ChainSpec one event followed to its end, with two registered         *)
(*             middlewares, handlers that throw and a transport that can  *)
(*             reject a send.                                              *)
(*   LoaderSpec  the plugin loader from construction on, over source units *)
(*             that can fail to load.                                      *)
(*   NameSpec  parseCommandName applied to command names, character by   *)
(*             character.                                                  *)
(*   Spec      the plugin loader (core/loader.ts) and the bot's registries *)
(*             and dispatcher (Bot), under the JavaScript event loop: a    *)
(*             handler runs to completion up to its next real suspension.  *)
(*                                                                         *)
(* Command names and message texts are sequences of whitespace-separated   *)
(* tokens.  An optional value (undefined / SQL NULL) is a sequence of      *)
(* length 0, a present one a sequence of length 1.                         *)
(***************************************************************************)
EXTENDS Integers, Sequences, FiniteSets, TLC

VARIABLES
    db,        \* PermissionManager.db: the five tables
    selfId,    \* PermissionManager.selfId
    last,      \* the last checkPermission call and what it returned
    nops,      \* management operations performed so far
    plugins,          \* Bot.plugins: Map name -> plugin, in insertion order
    messageHandlers,  \* Bot.messageHandlers: Map name -> handlers, in insertion order
    commands,         \* Bot.commands and Bot.cli: the registered commands, in order
    pluginPaths,      \* PluginLoader.pluginPaths: Map name -> path
    pathRef,          \* PluginLoader.pathRef: Map path -> names
    ev,               \* the event being dispatched (one Context and its handleMessage)
    cx,               \* one Context while a command handler uses its reply buffer
    lo,               \* PluginLoader: the last loader operation and what it called
    nm                \* a command name handed to parseCommandName, and its result

permVars == <<db, selfId, last, nops>>
botVars == <<plugins, messageHandlers, commands, pluginPaths, pathRef, ev, lo>>
vars == <<db, selfId, last, nops, plugins, messageHandlers, commands, pluginPaths,
          pathRef, ev, cx, lo, nm>>

(***************************************************************************)
(* Bounds and input sets                                                   *)
(***************************************************************************)
MaxDupRows == 2
MaxOps == 2
MaxCalls == 3
MaxSegs == 3
MaxCommits == 2

UserIds == {1, 2}
GroupIds == {1, 2}

None == <<>>
Some(v) == <<v>>
IsSome(o) == Len(o) > 0
Val(o) == o[1]

PluginNames == {"A", "B"}
EchoMsg == <<"echo", "<msg>">>
EchoOpt == <<"echo", "[n]">>
Ping == <<"ping">>
CommandNames == {EchoMsg, Ping}
Files == <<"f1", "f2">>

RECURSIVE SetToSeq(_)
SetToSeq(S) ==
    IF S = {} THEN <<>>
    ELSE LET m == CHOOSE x \in S : \A y \in S : x <= y
         IN <<m>> \o SetToSeq(S \ {m})

Includes(list, x) == \E i \in 1..Len(list) : list[i] = x
Filter(list, x) == SelectSeq(list, LAMBDA y : y # x)

(***************************************************************************)
(* Permission store: values                                                *)
(***************************************************************************)
\* The level order used by checkPermission; indexOf is zero-based, -1 if absent.
levels == <<"user", "admin", "owner">>
IndexOf(l) ==
    IF \E i \in 1..Len(levels) : levels[i] = l
    THEN (CHOOSE i \in 1..Len(levels) : levels[i] = l) - 1
    ELSE -1

\* JSON text of an id array, as a sequence of its tokens: [1,2] is "[" "1" "," "2" "]".
RECURSIVE JoinIds(_)
JoinIds(list) ==
    IF Len(list) = 0 THEN <<>>
    ELSE IF Len(list) = 1 THEN <<ToString(list[1])>>
    ELSE <<ToString(list[1]), ",">> \o JoinIds(Tail(list))

JSONStringify(list) == <<"[">> \o JoinIds(list) \o <<"]">>

JSONParse(text) ==
    LET toks == SelectSeq(text, LAMBDA t : t \notin {"[", "]", ","})
    IN [i \in 1..Len(toks) |->
            CHOOSE n \in UserIds \cup GroupIds : ToString(n) = toks[i]]

\* A TEXT column is truthy in JavaScript when it is not NULL and not the empty string.
TextTruthy(col) == IsSome(col) /\ Len(Val(col)) > 0

\* CommandPermissionConfig: every field optional.
Cfg(dis, lvl, us, gs, bus, bgs) ==
    [disabled |-> dis, level |-> lvl, users |-> us, groups |-> gs,
     blacklistedUsers |-> bus, blacklistedGroups |-> bgs]

EmptyDb ==
    [user_permissions |-> {}, global_blacklist |-> {}, plugin_permissions |-> {},
     command_permissions |-> {}, group_permissions |-> <<>>]

\* group_permissions is a bag of rows (row -> number of copies): SQLite keeps NULLs
\* of a PRIMARY KEY distinct, so a key with a NULL column can hold several rows.
BagAdd(b, r) ==
    IF r \in DOMAIN b THEN [b EXCEPT ![r] = @ + 1]
    ELSE [x \in DOMAIN b \cup {r} |-> IF x = r THEN 1 ELSE b[x]]
BagRemove(b, S) == [x \in DOMAIN b \ S |-> b[x]]
Copies(b, r) == IF r \in DOMAIN b THEN b[r] ELSE 0

GroupRow(g, p, c) == [group_id |-> g, plugin_name |-> p, command_name |-> c, disabled |-> 1]

(***************************************************************************)
(* Permission store: checkPermission                                       *)
(***************************************************************************)
\* A Context as checkPermission reads it; group_id is 0 in a private event.
Ctx(sender, group) ==
    [sender_id |-> sender, group_id |-> group, is_group |-> group # 0]

IsSelf(sid, userId) == sid > 0 /\ userId = sid

GetUserLevel(d, userId) ==
    LET rows == {r \in d.user_permissions : r.user_id = userId}
    IN IF rows = {} THEN "user" ELSE (CHOOSE r \in rows : TRUE).level

\* Variant: the lookups without the group_id condition (any group's row counts).
GroupDisableAnyGroup(d, ctx, pluginName, commandName) ==
    /\ ctx.is_group
    /\ \E r \in DOMAIN d.group_permissions :
          /\ r.disabled = 1
          /\ \/ ~IsSome(r.plugin_name) /\ ~IsSome(r.command_name)
             \/ r.plugin_name = Some(pluginName) /\ ~IsSome(r.command_name)
             \/ r.plugin_name = Some(pluginName) /\ r.command_name = Some(commandName)

\* The three group_permissions lookups of a group event.
GroupDisableDenies(d, ctx, pluginName, commandName) ==
    /\ ctx.is_group
    /\ \E r \in DOMAIN d.group_permissions :
          /\ r.group_id = ctx.group_id
          /\ r.disabled = 1
          /\ \/ ~IsSome(r.plugin_name) /\ ~IsSome(r.command_name)
             \/ r.plugin_name = Some(pluginName) /\ ~IsSome(r.command_name)
             \/ r.plugin_name = Some(pluginName) /\ r.command_name = Some(commandName)

GlobalBlacklistDenies(d, ctx) ==
    \/ [target_id |-> ctx.sender_id, type |-> "user"] \in d.global_blacklist
    \/ ctx.is_group /\ [target_id |-> ctx.group_id, type |-> "group"] \in d.global_blacklist

PluginDisabledDenies(d, pluginName) ==
    \E r \in d.plugin_permissions : r.plugin_name = pluginName /\ r.disabled = 1

\* Variant: a caller whose level equals the required level is denied too.
LevelDeniesEqual(d, userId, required) ==
    IndexOf(GetUserLevel(d, userId)) <= IndexOf(required)

LevelDenies(d, userId, required) ==
    IndexOf(GetUserLevel(d, userId)) < IndexOf(required)

\* Variant: a caller the row's whitelist lists passes the row's blacklist.
RowDeniesWhitelistFirst(d, ctx, row) ==
    \/ row.disabled = 1
    \/ TextTruthy(row.blacklisted_users)
          /\ Includes(JSONParse(Val(row.blacklisted_users)), ctx.sender_id)
          /\ ~(TextTruthy(row.users) /\ Includes(JSONParse(Val(row.users)), ctx.sender_id))
    \/ ctx.is_group /\ TextTruthy(row.blacklisted_groups)
          /\ Includes(JSONParse(Val(row.blacklisted_groups)), ctx.group_id)
    \/ TextTruthy(row.users) /\ ~Includes(JSONParse(Val(row.users)), ctx.sender_id)
    \/ ctx.is_group /\ TextTruthy(row.groups)
          /\ ~Includes(JSONParse(Val(row.groups)), ctx.group_id)
    \/ IsSome(row.level) /\ LevelDenies(d, ctx.sender_id, Val(row.level))

\* The checks on one persisted command_permissions row.
RowDenies(d, ctx, row) ==
    \/ row.disabled = 1
    \/ TextTruthy(row.blacklisted_users)
          /\ Includes(JSONParse(Val(row.blacklisted_users)), ctx.sender_id)
    \/ ctx.is_group /\ TextTruthy(row.blacklisted_groups)
          /\ Includes(JSONParse(Val(row.blacklisted_groups)), ctx.group_id)
    \/ TextTruthy(row.users) /\ ~Includes(JSONParse(Val(row.users)), ctx.sender_id)
    \/ ctx.is_group /\ TextTruthy(row.groups)
          /\ ~Includes(JSONParse(Val(row.groups)), ctx.group_id)
    \/ IsSome(row.level) /\ LevelDenies(d, ctx.sender_id, Val(row.level))

CommandRowDenies(d, ctx, pluginName, commandName) ==
    \E row \in d.command_permissions :
        /\ row.plugin_name = pluginName
        /\ row.command_name = commandName
        /\ RowDenies(d, ctx, row)

\* The checks on the command's default config; config is the optional argument.
DefaultConfigDenies(d, ctx, config) ==
    /\ IsSome(config)
    /\ LET c == Val(config) IN
       \/ c.disabled = Some(TRUE)
       \/ IsSome(c.blacklistedUsers) /\ Includes(Val(c.blacklistedUsers), ctx.sender_id)
       \/ ctx.is_group /\ IsSome(c.blacklistedGroups)
             /\ Includes(Val(c.blacklistedGroups), ctx.group_id)
       \/ IsSome(c.users) /\ Len(Val(c.users)) > 0
             /\ ~Includes(Val(c.users), ctx.sender_id)
       \/ ctx.is_group /\ IsSome(c.groups) /\ Len(Val(c.groups)) > 0
             /\ ~Includes(Val(c.groups), ctx.group_id)
       \/ IsSome(c.level) /\ LevelDenies(d, ctx.sender_id, Val(c.level))

\* Variant: the self check placed after the group lookups.
CheckPermissionSelfSecond(d, sid, ctx, pluginName, commandName, config) ==
    IF GroupDisableDenies(d, ctx, pluginName, commandName) THEN FALSE
    ELSE IF IsSelf(sid, ctx.sender_id) THEN TRUE
    ELSE IF GlobalBlacklistDenies(d, ctx) THEN FALSE
    ELSE IF PluginDisabledDenies(d, pluginName) THEN FALSE
    ELSE IF CommandRowDenies(d, ctx, pluginName, commandName) THEN FALSE
    ELSE IF DefaultConfigDenies(d, ctx, config) THEN FALSE
    ELSE TRUE

CheckPermission(d, sid, ctx, pluginName, commandName, config) ==
    IF IsSelf(sid, ctx.sender_id) THEN TRUE
    ELSE IF GroupDisableDenies(d, ctx, pluginName, commandName) THEN FALSE
    ELSE IF GlobalBlacklistDenies(d, ctx) THEN FALSE
    ELSE IF PluginDisabledDenies(d, pluginName) THEN FALSE
    ELSE IF CommandRowDenies(d, ctx, pluginName, commandName) THEN FALSE
    ELSE IF DefaultConfigDenies(d, ctx, config) THEN FALSE
    ELSE TRUE

(***************************************************************************)
(* Permission store: management operations, each db -> db                  *)
(***************************************************************************)
\* INSERT OR REPLACE on a table whose key columns are never NULL.
Upsert(tbl, row, SameKey(_, _)) == {r \in tbl : ~SameKey(r, row)} \cup {row}

SameUser(r, s) == r.user_id = s.user_id
SamePlugin(r, s) == r.plugin_name = s.plugin_name
SameCommand(r, s) == r.plugin_name = s.plugin_name /\ r.command_name = s.command_name

AddOwner(d, sid, userId) ==
    IF IsSelf(sid, userId) THEN d
    ELSE [d EXCEPT !.user_permissions =
              Upsert(@, [user_id |-> userId, level |-> "owner"], SameUser)]

RemoveOwner(d, userId) ==
    [d EXCEPT !.user_permissions =
        {r \in @ : ~(r.user_id = userId /\ r.level = "owner")}]

AddAdmin(d, sid, userId) ==
    IF IsSelf(sid, userId) THEN d
    ELSE [d EXCEPT !.user_permissions =
              Upsert(@, [user_id |-> userId, level |-> "admin"], SameUser)]

RemoveAdmin(d, userId) ==
    [d EXCEPT !.user_permissions =
        {r \in @ : ~(r.user_id = userId /\ r.level = "admin")}]

AddToGlobalBlacklist(d, sid, targetId, type) ==
    IF type = "user" /\ IsSelf(sid, targetId) THEN d
    ELSE [d EXCEPT !.global_blacklist = @ \cup {[target_id |-> targetId, type |-> type]}]

RemoveFromGlobalBlacklist(d, targetId, type) ==
    [d EXCEPT !.global_blacklist = @ \ {[target_id |-> targetId, type |-> type]}]

DisablePlugin(d, pluginName) ==
    [d EXCEPT !.plugin_permissions =
        Upsert(@, [plugin_name |-> pluginName, disabled |-> 1], SamePlugin)]

EnablePlugin(d, pluginName) ==
    [d EXCEPT !.plugin_permissions = {r \in @ : r.plugin_name # pluginName}]

CommandRow(p, c, dis, lvl, us, gs, bus, bgs) ==
    [plugin_name |-> p, command_name |-> c, disabled |-> dis, level |-> lvl,
     users |-> us, groups |-> gs, blacklisted_users |-> bus, blacklisted_groups |-> bgs]

\* The columns the statement does not name take their default, NULL.
DisableCommand(d, pluginName, commandName) ==
    [d EXCEPT !.command_permissions =
        Upsert(@, CommandRow(pluginName, commandName, 1, None, None, None, None, None),
               SameCommand)]

EnableCommand(d, pluginName, commandName) ==
    [d EXCEPT !.command_permissions =
        {r \in @ : ~(r.plugin_name = pluginName /\ r.command_name = commandName)}]

\* The self id is filtered out of users and blacklistedUsers when it is known.
ScrubSelfNever(sid, list) == list

ScrubSelf(sid, list) ==
    IF sid > 0 /\ IsSome(list) /\ Includes(Val(list), sid)
    THEN Some(Filter(Val(list), sid))
    ELSE list

\* An array is truthy even when empty, so [] is stored as the text "[]".
ListColumn(list) == IF IsSome(list) THEN Some(JSONStringify(Val(list))) ELSE None

SetCommandPermission(d, sid, pluginName, commandName, config) ==
    LET users == ScrubSelf(sid, config.users)
        blacklistedUsers == ScrubSelf(sid, config.blacklistedUsers)
    IN [d EXCEPT !.command_permissions =
           Upsert(@, CommandRow(pluginName, commandName,
                                IF config.disabled = Some(TRUE) THEN 1 ELSE 0,
                                config.level,
                                ListColumn(users),
                                ListColumn(config.groups),
                                ListColumn(blacklistedUsers),
                                ListColumn(config.blacklistedGroups)),
                  SameCommand)]

\* INSERT OR REPLACE into group_permissions: a row whose key holds a NULL conflicts
\* with no row and is added; a row with a full key replaces the row of that key.
GroupUpsert(d, row) ==
    [d EXCEPT !.group_permissions =
        IF IsSome(row.plugin_name) /\ IsSome(row.command_name)
        THEN BagAdd(BagRemove(@, {row}), row)
        ELSE BagAdd(@, row)]

GroupDelete(d, row) == [d EXCEPT !.group_permissions = BagRemove(@, {row})]

DisableGroup(d, groupId) == GroupUpsert(d, GroupRow(groupId, None, None))
EnableGroup(d, groupId) == GroupDelete(d, GroupRow(groupId, None, None))
DisableGroupPlugin(d, groupId, pluginName) ==
    GroupUpsert(d, GroupRow(groupId, Some(pluginName), None))
EnableGroupPlugin(d, groupId, pluginName) ==
    GroupDelete(d, GroupRow(groupId, Some(pluginName), None))
DisableGroupCommand(d, groupId, pluginName, commandName) ==
    GroupUpsert(d, GroupRow(groupId, Some(pluginName), Some(commandName)))
EnableGroupCommand(d, groupId, pluginName, commandName) ==
    GroupDelete(d, GroupRow(groupId, Some(pluginName), Some(commandName)))

(***************************************************************************)
(* Permission store: inputs                                                *)
(***************************************************************************)
\* The bot's own account.
BotId == CHOOSE u \in UserIds : \A v \in UserIds : v <= u

\* The plugin and command the management operations and checks are called for.
ManagedPlugins == {"A"}
ManagedCommands == {EchoMsg}

IdLists(ids) == {None} \cup {Some(SetToSeq(S)) : S \in SUBSET ids}
LevelOpts == {None} \cup {Some(levels[i]) : i \in 1..Len(levels)}

Weight(c) ==
    Cardinality({f \in {"disabled", "level", "users", "groups",
                        "blacklistedUsers", "blacklistedGroups"} : IsSome(c[f])})

NoCfg == Cfg(None, None, None, None, None, None)

\* The configs the operations are called with.
CallConfigs ==
    {NoCfg,
     [NoCfg EXCEPT !.users = Some(<<>>)],
     [NoCfg EXCEPT !.users = Some(<<BotId>>)],
     [NoCfg EXCEPT !.users = Some(<<1>>)],
     [NoCfg EXCEPT !.users = Some(<<1>>), !.blacklistedUsers = Some(<<1>>)],
     [NoCfg EXCEPT !.groups = Some(<<>>)],
     [NoCfg EXCEPT !.groups = Some(<<1>>), !.blacklistedGroups = Some(<<1>>)],
     [NoCfg EXCEPT !.level = Some("admin")],
     [NoCfg EXCEPT !.disabled = Some(TRUE)]}

\* The default configs the claims range over: one field given, or a call config.
Configs ==
    {c \in {Cfg(dis, lvl, us, gs, bus, bgs) :
                dis \in {None, Some(TRUE)}, lvl \in LevelOpts,
                us \in IdLists(UserIds), gs \in IdLists(GroupIds),
                bus \in IdLists(UserIds), bgs \in IdLists(GroupIds)} :
        Weight(c) <= 1} \cup CallConfigs
ConfigOpts == {None} \cup {Some(c) : c \in Configs}

\* The default configs checkPermission is called with.
CheckConfigs ==
    {None,
     Some([NoCfg EXCEPT !.users = Some(<<1>>)]),
     Some([NoCfg EXCEPT !.level = Some("admin")])}

\* A sender id is a user's id, or 0 when the event carries none.
SenderIds == {0} \cup UserIds
Contexts == {Ctx(u, g) : u \in SenderIds, g \in {0} \cup GroupIds}

NoCall == [op |-> "none"]

(***************************************************************************)
(* Permission store: the state machine                                     *)
(***************************************************************************)
StoreInit ==
    /\ db = EmptyDb
    /\ selfId = 0
    /\ last = NoCall
    /\ nops = 0

NoName == [pc |-> "none"]

PermInit == StoreInit /\ nm = NoName

Manage(d) ==
    /\ nops < MaxOps
    /\ db' = d
    /\ nops' = nops + 1
    /\ last' = NoCall
    /\ UNCHANGED <<selfId, botVars, cx, nm>>

SetSelfId ==
    /\ selfId' = BotId
    /\ last' = NoCall
    /\ UNCHANGED <<db, nops, botVars, cx, nm>>

DoAddOwner == \E u \in UserIds : Manage(AddOwner(db, selfId, u))
DoRemoveOwner == \E u \in UserIds : Manage(RemoveOwner(db, u))
DoAddAdmin == \E u \in UserIds : Manage(AddAdmin(db, selfId, u))
DoRemoveAdmin == \E u \in UserIds : Manage(RemoveAdmin(db, u))
DoAddToGlobalBlacklist ==
    \/ \E u \in UserIds : Manage(AddToGlobalBlacklist(db, selfId, u, "user"))
    \/ \E g \in GroupIds : Manage(AddToGlobalBlacklist(db, selfId, g, "group"))
DoRemoveFromGlobalBlacklist ==
    \/ \E u \in UserIds : Manage(RemoveFromGlobalBlacklist(db, u, "user"))
    \/ \E g \in GroupIds : Manage(RemoveFromGlobalBlacklist(db, g, "group"))
DoDisablePlugin == \E p \in ManagedPlugins : Manage(DisablePlugin(db, p))
DoEnablePlugin == \E p \in ManagedPlugins : Manage(EnablePlugin(db, p))
DoDisableCommand ==
    \E p \in ManagedPlugins, c \in ManagedCommands : Manage(DisableCommand(db, p, c))
DoEnableCommand ==
    \E p \in ManagedPlugins, c \in ManagedCommands : Manage(EnableCommand(db, p, c))
DoSetCommandPermission ==
    \E p \in ManagedPlugins, c \in ManagedCommands, cfg \in CallConfigs :
        Manage(SetCommandPermission(db, selfId, p, c, cfg))
DoDisableGroup ==
    \E g \in GroupIds :
        /\ Copies(db.group_permissions, GroupRow(g, None, None)) < MaxDupRows
        /\ Manage(DisableGroup(db, g))
DoEnableGroup == \E g \in GroupIds : Manage(EnableGroup(db, g))
DoDisableGroupPlugin ==
    \E g \in GroupIds, p \in ManagedPlugins :
        /\ Copies(db.group_permissions, GroupRow(g, Some(p), None)) < MaxDupRows
        /\ Manage(DisableGroupPlugin(db, g, p))
DoEnableGroupPlugin ==
    \E g \in GroupIds, p \in ManagedPlugins : Manage(EnableGroupPlugin(db, g, p))
DoDisableGroupCommand ==
    \E g \in GroupIds, p \in ManagedPlugins, c \in ManagedCommands :
        Manage(DisableGroupCommand(db, g, p, c))
DoEnableGroupCommand ==
    \E g \in GroupIds, p \in ManagedPlugins, c \in ManagedCommands :
        Manage(EnableGroupCommand(db, g, p, c))

DoCheckPermission ==
    \E ctx \in Contexts, p \in ManagedPlugins, c \in ManagedCommands,
       cfg \in CheckConfigs :
        /\ last' = [op |-> "check", ctx |-> ctx, plugin |-> p, command |-> c,
                    config |-> cfg,
                    result |-> CheckPermission(db, selfId, ctx, p, c, cfg)]
        /\ UNCHANGED <<db, selfId, nops, botVars, cx, nm>>

PermNext ==
    \/ SetSelfId
    \/ DoAddOwner \/ DoRemoveOwner \/ DoAddAdmin \/ DoRemoveAdmin
    \/ DoAddToGlobalBlacklist \/ DoRemoveFromGlobalBlacklist
    \/ DoDisablePlugin \/ DoEnablePlugin
    \/ DoDisableCommand \/ DoEnableCommand \/ DoSetCommandPermission
    \/ DoDisableGroup \/ DoEnableGroup
    \/ DoDisableGroupPlugin \/ DoEnableGroupPlugin
    \/ DoDisableGroupCommand \/ DoEnableGroupCommand
    \/ DoCheckPermission


(***************************************************************************)
(* Plugins, commands and the two JavaScript Maps the bot iterates          *)
(***************************************************************************)
Cmd(name, scope, permission, args) ==
    [name |-> name, scope |-> scope, permission |-> permission, args |-> args]
Handler(scope) == [scope |-> scope]
Plugin(name, scope, cmds, handlers) ==
    [name |-> name, scope |-> scope, commands |-> cmds, messageHandlers |-> handlers]

AdminOnly == Some([NoCfg EXCEPT !.level = Some("admin")])

\* Command.args: absent, one schema, or an array of schemas.  A schema is named
\* by what it accepts: "string" any token, "digits" a token of Digits.
NoArgs == [isArray |-> FALSE, schemas |-> <<>>]
One(schema) == [isArray |-> FALSE, schemas |-> <<schema>>]
Tuple(schemas) == [isArray |-> TRUE, schemas |-> schemas]

\* The plugin objects a source unit can export; a load makes a new object of one.
Catalog ==
    "A1" :> Plugin(Some("A"), "all",
                   Some(<<Cmd(EchoMsg, "all", None, One("string"))>>),
                   Some(<<Handler("all")>>))
    @@ "A2" :> Plugin(Some("A"), "all",
                      Some(<<Cmd(EchoMsg, "all", None, One("string")),
                             Cmd(Ping, "private", AdminOnly, NoArgs)>>),
                      Some(<<Handler("all"), Handler("group")>>))
    @@ "B1" :> Plugin(Some("B"), "all",
                      Some(<<Cmd(EchoMsg, "all", None, One("string"))>>),
                      Some(<<Handler("all")>>))
    @@ "B2" :> Plugin(Some("B"), "all",
                      Some(<<Cmd(EchoMsg, "all", None, One("string")),
                             Cmd(EchoOpt, "all", None, NoArgs)>>),
                      Some(<<Handler("all")>>))
    @@ "N1" :> Plugin(None, "all", None, Some(<<Handler("all")>>))
    @@ "T1" :> Plugin(Some("T"), "all", None, Some(<<Handler("all")>>))
    @@ "C1" :> Plugin(Some("C"), "all",
                      Some(<<Cmd(Ping, "all", None, NoArgs)>>), None)
    @@ "A3" :> Plugin(Some("A"), "all", None, Some(<<Handler("private")>>))
    @@ "H1" :> Plugin(Some("H"), "all", None,
                      Some(<<Handler("all"), Handler("group")>>))
    @@ "G1" :> Plugin(Some("G"), "group",
                      Some(<<Cmd(<<"stat">>, "all", None, NoArgs),
                             Cmd(<<"mute">>, "group", None, NoArgs)>>),
                      Some(<<Handler("all")>>))
    @@ "P1" :> Plugin(Some("P"), "all",
                      Some(<<Cmd(<<"plugin", "enable", "<name>">>, "all", None,
                                 One("string")),
                             Cmd(<<"plugin", "list">>, "private", None, NoArgs),
                             Cmd(<<"plugin", "disable", "<name>">>, "all", None,
                                 One("string")),
                             Cmd(<<"add", "<a>", "<b>">>, "all", None,
                                 Tuple(<<"digits", "digits">>))>>),
                      Some(<<Handler("private")>>))
    @@ "G2" :> Plugin(Some("G"), "group",
                      Some(<<Cmd(<<"stat">>, "all", None, NoArgs),
                             Cmd(<<"mute">>, "group", None, NoArgs),
                             Cmd(<<"whisper">>, "private", None, NoArgs)>>),
                      None)
    @@ "U1" :> Plugin(Some("U"), "all", None, Some(<<Handler("all")>>))

\* Plugins whose onLoad throws, plugins whose onUnload throws, and the outcome of a
\* require that throws.
OnLoadThrows == {"T1"}
OnUnloadThrows == {"U1"}
RequireThrows == <<"require throws">>
NoLoaderOp == [op |-> "none"]

\* What each source unit can hold: a sequence of exported plugins.
Contents ==
    "f1" :> {<<"A1">>, <<"A2">>}
    @@ "f2" :> {<<"B1">>, <<"B2">>}
InitialContent == "f1" :> <<"A1">> @@ "f2" :> <<"B1">>

\* A Map in insertion order: set keeps the place of a key it holds and appends a
\* new one; delete removes the entry.
MapHas(m, k) == \E i \in 1..Len(m) : m[i].k = k
MapIndex(m, k) == CHOOSE i \in 1..Len(m) : m[i].k = k
MapGet(m, k) == m[MapIndex(m, k)].v
MapSet(m, k, v) ==
    IF MapHas(m, k) THEN [m EXCEPT ![MapIndex(m, k)].v = v]
    ELSE Append(m, [k |-> k, v |-> v])
MapDelete(m, k) == SelectSeq(m, LAMBDA e : e.k # k)

\* The loader's Maps are only looked up, never iterated: functions.
FnSet(f, k, v) == [x \in DOMAIN f \cup {k} |-> IF x = k THEN v ELSE f[x]]
FnDel(f, k) == [x \in DOMAIN f \ {k} |-> f[x]]

(***************************************************************************)
(* Bot: registries and the command table                                   *)
(* w is the registries as one record; w.it is the place of the dispatching *)
(* event's iterator over messageHandlers (entries already visited).        *)
(***************************************************************************)
NameOf(id) == Val(Catalog[id].name)

\* onUnload is called first; when it throws nothing is deleted.
UnregisterPlugin(w, pluginName) ==
    IF ~MapHas(w.plugins, pluginName) THEN w
    ELSE IF MapGet(w.plugins, pluginName) \in OnUnloadThrows
    THEN [w EXCEPT
            !.trace = Append(@, <<"onUnload", MapGet(w.plugins, pluginName)>>),
            !.thrown = TRUE]
    ELSE [w EXCEPT
            !.trace = Append(@, <<"onUnload", MapGet(w.plugins, pluginName)>>),
            !.plugins = MapDelete(@, pluginName),
            !.messageHandlers = MapDelete(@, pluginName),
            !.it = IF MapHas(w.messageHandlers, pluginName)
                      /\ MapIndex(w.messageHandlers, pluginName) <= @
                   THEN @ - 1 ELSE @]

\* What the registries hold for a plugin object at one moment.
View(w, id) ==
    [plugin |-> id,
     handlers |-> MapHas(w.messageHandlers, NameOf(id))
                    /\ MapGet(w.messageHandlers, NameOf(id)) = id,
     active |-> MapHas(w.plugins, NameOf(id)) /\ MapGet(w.plugins, NameOf(id)) = id]

\* onLoad is called first (seen: what the registries hold during the call); when
\* it throws nothing is stored.
RegisterPlugin(w, id) ==
    LET h == [w EXCEPT !.trace = Append(@, <<"onLoad", id>>),
                       !.seen = Append(@, View(w, id))] IN
    IF id \in OnLoadThrows THEN [h EXCEPT !.thrown = TRUE]
    ELSE [h EXCEPT
            !.messageHandlers =
                IF IsSome(Catalog[id].messageHandlers) THEN MapSet(@, NameOf(id), id)
                ELSE @,
            !.plugins = MapSet(@, NameOf(id), id)]

\* One registered command: the command, its plugin's name and the plugin object.
FullCmd(cmd, id) == [cmd |-> cmd, pluginName |-> NameOf(id), plugin |-> id]

RECURSIVE AddCommands(_, _, _)
AddCommands(table, cmds, id) ==
    IF Len(cmds) = 0 THEN table
    ELSE LET cmd == Head(cmds)
             skip == \E i \in 1..Len(table) : table[i].cmd.name = cmd.name
         IN AddCommands(IF skip THEN table ELSE Append(table, FullCmd(cmd, id)),
                        Tail(cmds), id)

RECURSIVE RegisterFrom(_, _)
RegisterFrom(table, plugs) ==
    IF Len(plugs) = 0 THEN table
    ELSE LET id == Head(plugs).v
         IN RegisterFrom(IF IsSome(Catalog[id].commands)
                         THEN AddCommands(table, Val(Catalog[id].commands), id)
                         ELSE table,
                         Tail(plugs))

\* Clears the table and the cli and registers every active plugin's commands.
RegisterCommand(plugs) == RegisterFrom(<<>>, plugs)

(***************************************************************************)
(* PluginLoader                                                            *)
(***************************************************************************)
\* Variant: a load that never unloads the active plugin of the same name.
UnloadActiveNever(w, pluginName) == w

\* A plugin of that name was loaded before: it is unregistered first.
UnloadActive(w, pluginName) ==
    IF pluginName \in DOMAIN w.pluginPaths THEN UnregisterPlugin(w, pluginName) ELSE w

scopeHierarchy == [private |-> 0, group |-> 1, all |-> 2]

\* An undeclared scope counts as "all".
isScopeAllowed(pluginScope, commandScope) ==
    LET p == IF IsSome(pluginScope) THEN Val(pluginScope) ELSE "all"
        c == IF IsSome(commandScope) THEN Val(commandScope) ELSE "all"
    IN scopeHierarchy[c] <= scopeHierarchy[p]

\* The scope check of a plugin's commands: a warning for each command whose scope
\* the plugin's scope does not allow, and nothing else.
RECURSIVE ScopeWarnings(_, _, _)
ScopeWarnings(trace, id, cmds) ==
    IF Len(cmds) = 0 THEN trace
    ELSE ScopeWarnings(IF isScopeAllowed(Some(Catalog[id].scope), Some(Head(cmds).scope))
                       THEN trace
                       ELSE Append(trace, <<"warn", id, Head(cmds).name>>),
                       id, Tail(cmds))

ValidateScopes(w, id) ==
    IF IsSome(Catalog[id].commands)
    THEN [w EXCEPT !.trace = ScopeWarnings(@, id, Val(Catalog[id].commands))]
    ELSE w

\* The loop over the exported plugins.  A plugin without a name is logged and
\* passed over; an exception of onLoad leaves the loop, and the function, at once.
RECURSIVE LoadEach(_, _, _, _)
LoadEach(w, fullPath, exported, loadedPluginNames) ==
    IF Len(exported) = 0
    THEN [w EXCEPT !.pathRef = FnSet(@, fullPath, loadedPluginNames)]
    ELSE LET id == Head(exported) IN
         IF ~IsSome(Catalog[id].name)
         THEN LoadEach([w EXCEPT !.trace = Append(@, <<"invalid", id>>)],
                       fullPath, Tail(exported), loadedPluginNames)
         ELSE LET pluginName == NameOf(id)
                  w0 == UnloadActive(w, pluginName)
                  w1 == ValidateScopes(w0, id)
                  w2 == [w1 EXCEPT !.pluginPaths = FnSet(@, pluginName, fullPath)]
                  w3 == RegisterPlugin(w2, id)
              IN IF w0.thrown THEN w0
                 ELSE IF w3.thrown THEN w3
                 ELSE LoadEach(w3, fullPath, Tail(exported),
                               Append(loadedPluginNames, pluginName))

\* resolves: whether require.resolve finds the path (getFullPath is not null).
\* exported: what require yields, or RequireThrows when evaluating the unit
\* throws.  The catch block logs the error and the function returns.
LoadPlugin(w, filePath, exported, resolves) ==
    IF ~resolves THEN w
    ELSE LET r == IF exported = RequireThrows THEN [w EXCEPT !.thrown = TRUE]
                  ELSE LoadEach(w, filePath, exported, <<>>)
         IN IF r.thrown
            THEN [r EXCEPT !.thrown = FALSE, !.trace = Append(@, <<"failed", filePath>>)]
            ELSE r

RECURSIVE UnloadEach(_, _)
UnloadEach(w, pluginNames) ==
    IF Len(pluginNames) = 0 THEN w
    ELSE LET w1 == UnregisterPlugin(w, Head(pluginNames))
         IN IF w1.thrown THEN w1
            ELSE UnloadEach([w1 EXCEPT !.pluginPaths = FnDel(@, Head(pluginNames))],
                            Tail(pluginNames))

\* Nothing catches an exception of onUnload: it leaves the loop and the function
\* (thrown), before the path index is cleared.
UnloadPlugin(w, filePath, resolves) ==
    IF ~resolves THEN w
    ELSE IF filePath \in DOMAIN w.pathRef /\ Len(w.pathRef[filePath]) > 0
         THEN LET u == UnloadEach(w, w.pathRef[filePath])
              IN IF u.thrown THEN u ELSE [u EXCEPT !.pathRef = FnDel(@, filePath)]
         ELSE w

\* loadPlugin for each file of the directory; content: what each file exports.
RECURSIVE LoadFiles(_, _, _)
LoadFiles(w, files, content) ==
    IF Len(files) = 0 THEN w
    ELSE LoadFiles(LoadPlugin(w, Head(files), content[Head(files)], TRUE),
                   Tail(files), content)

LoadAll(w, files) == LoadFiles(w, files, InitialContent)

NoRegistries ==
    [plugins |-> <<>>, messageHandlers |-> <<>>, pluginPaths |-> <<>>,
     pathRef |-> <<>>, it |-> 0, trace |-> <<>>, seen |-> <<>>, thrown |-> FALSE]

\* Variant: a reload that leaves the command table as it was.
ReloadWithoutRegisterCommand(w, table, filePath, exported, resolves) ==
    [w |-> LoadPlugin(UnloadPlugin(w, filePath, resolves), filePath, exported, resolves),
     commands |-> table]

\* reloadPlugin: unloadPlugin, loadPlugin (no await inside: it runs through),
\* registerCommand.  Returns the registries and the new command table.
\* An exception of unloadPlugin leaves reloadPlugin at once.
ReloadPlugin(w, table, filePath, exported, resolves) ==
    LET u == UnloadPlugin(w, filePath, resolves)
        w1 == LoadPlugin(u, filePath, exported, resolves)
    IN IF u.thrown THEN [w |-> [u EXCEPT !.thrown = FALSE], commands |-> table]
       ELSE [w |-> w1, commands |-> RegisterCommand(w1.plugins)]

(***************************************************************************)
(* Command matching                                                        *)
(***************************************************************************)
\* Tokens of a command name that begin with "-", "<" or "[".
ArgTokens == {"<msg>", "[n]", "<name>", "<a>", "<b>"}

\* The tokens of a name from its first argument token on are dropped.
RECURSIVE CutArgs(_)
CutArgs(tokens) ==
    IF Len(tokens) = 0 \/ Head(tokens) \in ArgTokens THEN <<>>
    ELSE <<Head(tokens)>> \o CutArgs(Tail(tokens))

\* On a name given as its tokens: the pattern needs whitespace in front of the
\* argument token, so the first token of a name is never cut.
parseCommandName(name) ==
    IF Len(name) = 0 THEN <<>> ELSE <<Head(name)>> \o CutArgs(Tail(name))

\* The same function on a name given as its characters.
Whitespace == {" ", "\n"}     \* \s
LineEnds == {"\n"}            \* what . does not match
Markers == {"-", "<", "["}

RECURSIVE SkipSpace(_)
SkipSpace(text) ==
    IF Len(text) > 0 /\ Head(text) \in Whitespace THEN SkipSpace(Tail(text)) ELSE text

RECURSIVE SkipLine(_)
SkipLine(text) ==
    IF Len(text) = 0 \/ Head(text) \in LineEnds THEN text ELSE SkipLine(Tail(text))

\* name.replace(/\s+([\-\<\[]).*/, ""): the leftmost run of whitespace that is
\* followed by a marker is removed together with the rest of its line.
RECURSIVE Replace(_)
Replace(text) ==
    IF Len(text) = 0 THEN <<>>
    ELSE IF /\ Head(text) \in Whitespace
            /\ Len(SkipSpace(text)) > 0
            /\ Head(SkipSpace(text)) \in Markers
         THEN SkipLine(SkipSpace(text))
         ELSE <<Head(text)>> \o Replace(Tail(text))

RECURSIVE TrimEnd(_)
TrimEnd(text) ==
    IF Len(text) > 0 /\ text[Len(text)] \in Whitespace
    THEN TrimEnd(SubSeq(text, 1, Len(text) - 1)) ELSE text

Trim(text) == TrimEnd(SkipSpace(text))

parseCommandNameNoTrim(name) == Replace(name)

parseCommandNameChars(name) ==
    Trim(Replace(name))

IsPrefix(a, b) == Len(a) <= Len(b) /\ SubSeq(b, 1, Len(a)) = a

\* The entries argv can resolve to: those whose basename is the longest basename
\* that starts argv.
Candidates(table, argv) ==
    LET fits == {i \in 1..Len(table) :
                    /\ Len(parseCommandName(table[i].cmd.name)) > 0
                    /\ IsPrefix(parseCommandName(table[i].cmd.name), argv)}
    IN {i \in fits : \A j \in fits :
            Len(parseCommandName(table[j].cmd.name))
                <= Len(parseCommandName(table[i].cmd.name))}

\* Variant: every text that resolves to no command is an unknown sub-command.
UnknownSubCommandAnyRoot(table, argv) == Candidates(table, argv) = {}

\* A known first token with no command matching: "Unknown sub-command".
UnknownSubCommand(table, argv) ==
    /\ Candidates(table, argv) = {}
    /\ \E i \in 1..Len(table) : parseCommandName(table[i].cmd.name)[1] = argv[1]

RawArgs(entry, argv) ==
    SubSeq(argv, Len(parseCommandName(entry.cmd.name)) + 1, Len(argv))

\* schema.parse: a missing value (undefined) is rejected by every schema.
Digits == {"1", "2"}
Accepts(schema, rawArgs, i) ==
    /\ i <= Len(rawArgs)
    /\ schema = "digits" => rawArgs[i] \in Digits

\* The issue messages of the ZodError for position i.
Issue(schema, i) == <<<<"issue", schema, ToString(i)>>>>

\* The issues of the error that cmd.args.map(schema.parse) throws: the first
\* schema that rejects its value throws, and the later ones are not run.
RECURSIVE FirstIssues(_, _, _)
FirstIssues(schemas, rawArgs, i) ==
    IF i > Len(schemas) THEN <<>>
    ELSE IF ~Accepts(schemas[i], rawArgs, i) THEN Issue(schemas[i], i)
    ELSE FirstIssues(schemas, rawArgs, i + 1)

\* An array is validated position by position, one schema against rawArgs[0];
\* <<>> when validation passes.
Validate(cmd, rawArgs) == FirstIssues(cmd.args.schemas, rawArgs, 1)

(***************************************************************************)
(* Replies of the dispatcher                                               *)
(***************************************************************************)
\* A committed reply: what it is and the lines after its heading.
Reply(kind, lines) == [kind |-> kind, lines |-> lines]

\* The order of JavaScript's default sort on the command names held by the
\* catalog: names compare token by token, tokens by their code units.
TokenRank ==
    "<a>" :> 1 @@ "<b>" :> 2 @@ "<msg>" :> 3 @@ "<name>" :> 4 @@ "[n]" :> 5
    @@ "add" :> 6 @@ "disable" :> 7 @@ "echo" :> 8 @@ "enable" :> 9
    @@ "list" :> 10 @@ "mute" :> 11 @@ "ping" :> 12 @@ "plugin" :> 13
    @@ "stat" :> 14

RECURSIVE Less(_, _)
Less(a, b) ==
    IF a = <<>> THEN b # <<>>
    ELSE IF b = <<>> THEN FALSE
    ELSE IF Head(a) = Head(b) THEN Less(Tail(a), Tail(b))
    ELSE TokenRank[Head(a)] < TokenRank[Head(b)]

RECURSIVE Sort(_)
Sort(names) ==
    IF names = {} THEN <<>>
    ELSE LET m == CHOOSE x \in names : \A y \in names \ {x} : Less(x, y)
         IN <<m>> \o Sort(names \ {m})

\* "Usage:" and the names of the commands whose root is argv[0], sorted.
Usage(table, argv) ==
    Reply("usage",
          Sort({table[i].cmd.name : i \in {j \in 1..Len(table) :
                   parseCommandName(table[j].cmd.name)[1] = argv[1]}}))

\* "Invalid command:" and the name of the first command whose full name starts
\* with the text of the event.
InvalidCommand(table, argv) ==
    LET hits == {i \in 1..Len(table) : IsPrefix(parseCommandName(argv), table[i].cmd.name)}
    IN IF hits = {} THEN None
       ELSE Some(Reply("invalid-command",
                       <<table[CHOOSE i \in hits : \A j \in hits : i <= j].cmd.name>>))

\* The catch block for the error of a known first token with no command:
\* isParseError says whether the error is an instance of ParseError.
Caught(table, argv, isParseError) ==
    IF isParseError /\ IsSome(InvalidCommand(table, argv))
    THEN Val(InvalidCommand(table, argv))
    ELSE Usage(table, argv)

\* Variant: the chain goes on after a middleware that returned without next.
RECURSIVE RunMiddlewareIgnoresStop(_, _)
RunMiddlewareIgnoresStop(mws, index) ==
    IF index <= Len(mws)
    THEN IF mws[index] \in {"next", "stop"}
         THEN LET r == RunMiddlewareIgnoresStop(mws, index + 1)
              IN [r EXCEPT !.entered = <<index>> \o @]
         ELSE [entered |-> <<index>>, end |-> mws[index]]
    ELSE [entered |-> <<>>, end |-> "next"]

\* runMiddleware(index, meta, next): mws[i] is what the i-th registered middleware
\* does for this unit: it awaits next ("next"), returns without calling it
\* ("stop"), or throws ("throw").  entered: the middlewares called, in order;
\* end: "next" when the terminal action is called, else what ended the chain.
RECURSIVE RunMiddleware(_, _)
RunMiddleware(mws, index) ==
    IF index <= Len(mws)
    THEN IF mws[index] = "next"
         THEN LET r == RunMiddleware(mws, index + 1)
              IN [r EXCEPT !.entered = <<index>> \o @]
         ELSE [entered |-> <<index>>, end |-> mws[index]]
    ELSE [entered |-> <<>>, end |-> "next"]

\* How the chain ends when started at the first middleware.
RunChain(mws) == RunMiddleware(mws, 1).end

(***************************************************************************)
(* Bot.handleMessage                                                       *)
(***************************************************************************)
Argvs == {<<"echo", "hi">>, <<"echo">>, <<"ping">>, <<"hello">>}
DispatchArgvs ==
    {<<"plugin">>, <<"plugin", "frob">>, <<"plugin", "list">>,
     <<"plugin", "enable", "x">>, <<"add", "1", "x">>, <<"add", "x", "y">>,
     <<"add", "1", "2">>, <<"stat">>, <<"mute">>, <<"hello">>}
\* What the registered middlewares do on the command path of one event.
Chains == {<<"next">>, <<"stop">>, <<"throw">>}
\* One private and one group event.
EventContexts == {Ctx(1, 0), Ctx(1, 1)}

\* The environment of one event: nmw middlewares are registered; hmw[k] is what
\* they do for the k-th message-handler unit (a unit past the end of hmw meets
\* middlewares that all call next); sendOk: the transport accepts the event's sends.
Env(nmw, hmw, sendOk) == [nmw |-> nmw, hmw |-> hmw, sendOk |-> sendOk]
QuietEnv(nmw) == Env(nmw, <<>>, TRUE)

\* replies: the replies the transport accepted; calls: the message handlers
\* invoked; units: the message-handler units started (middleware chain, then the
\* handler), each with the middlewares entered and how the unit ended; errors and
\* herrors: errors logged by the catch of the command path and of the handler
\* loop; escaped: rejections that left handleMessage or were never awaited.
NoEvent ==
    [pc |-> "idle", ctx |-> Ctx(1, 0), argv |-> <<>>, cmd |-> None,
     replies |-> <<>>, invoked |-> FALSE, calls |-> <<>>,
     mw |-> <<>>, validated |-> "no", errors |-> 0,
     it |-> 0, cur |-> "", hi |-> 0,
     env |-> QuietEnv(0), entered |-> <<>>, units |-> <<>>, handled |-> FALSE,
     herrors |-> 0, escaped |-> 0, thrown |-> FALSE]

\* Variant: only the private scope is enforced in the handler loop.
ScopeSkipsPrivateOnly(scope, ctx) == scope = "private" /\ ctx.is_group

ScopeSkips(scope, ctx) ==
    \/ scope = "private" /\ ctx.is_group
    \/ scope = "group" /\ ~ctx.is_group

\* The next handler the loop runs: the rest of the handler array in hand (the
\* array of the plugin object that was in the Map when its entry was visited),
\* then the Map entries after the iterator's place, as the Map is now.
RECURSIVE Advance(_, _, _, _, _)
Advance(mh, it, cur, hi, ctx) ==
    IF cur # "" /\ hi <= Len(Val(Catalog[cur].messageHandlers))
    THEN IF ScopeSkips(Val(Catalog[cur].messageHandlers)[hi].scope, ctx)
         THEN Advance(mh, it, cur, hi + 1, ctx)
         ELSE [found |-> TRUE, it |-> it, cur |-> cur, hi |-> hi]
    ELSE IF it < Len(mh)
         THEN Advance(mh, it + 1, mh[it + 1].v, 1, ctx)
         ELSE [found |-> FALSE, it |-> 0, cur |-> "", hi |-> 0]

\* What the registered middlewares do for the k-th message-handler unit.
UnitChain(env, k) ==
    IF k <= Len(env.hmw) THEN env.hmw[k] ELSE [i \in 1..env.nmw |-> "next"]

\* The event after the loop has moved on from position (it, cur, hi): the next
\* handler in scope is wrapped in the middleware chain; when the chain calls the
\* terminal action the handler is invoked, and when a middleware returns without
\* next, or throws (caught and logged in the loop), the loop goes on.
RECURSIVE RunHandlers(_, _, _, _, _)
RunHandlers(e, mh, it, cur, hi) ==
    LET n == Advance(mh, it, cur, hi, e.ctx) IN
    IF n.found
    THEN LET chain == UnitChain(e.env, Len(e.units) + 1)
             r == RunMiddleware(chain, 1)
             e1 == [e EXCEPT !.it = n.it, !.cur = n.cur, !.hi = n.hi,
                             !.units = Append(@, [plugin |-> NameOf(n.cur),
                                                  inst |-> n.cur, idx |-> n.hi,
                                                  chain |-> chain,
                                                  entered |-> r.entered,
                                                  out |-> CASE r.end = "next" -> "running"
                                                            [] r.end = "stop" -> "mw-stop"
                                                            [] OTHER -> "mw-throw"])]
         IN IF r.end = "next"
            THEN [e1 EXCEPT !.pc = "inHandler",
                            !.calls = Append(@, [plugin |-> NameOf(n.cur),
                                                 inst |-> n.cur, idx |-> n.hi])]
            ELSE RunHandlers(IF r.end = "throw" THEN [e1 EXCEPT !.herrors = @ + 1]
                             ELSE e1, mh, n.it, n.cur, n.hi + 1)
    ELSE [e EXCEPT !.pc = "done", !.it = 0, !.cur = "", !.hi = 0]

\* return without a reply, and return after a committed reply
Finish(e) == [e EXCEPT !.pc = "done"]
Done(e, reply) == [e EXCEPT !.pc = "done", !.replies = Append(@, reply)]

\* A commit whose rejection nothing catches: where the call is not awaited the
\* promise is rejected unhandled, where it is awaited in the catch block the
\* rejection leaves handleMessage and the listener.
ReplyOrEscape(e, reply) ==
    IF e.env.sendOk THEN Done(e, reply)
    ELSE [e EXCEPT !.pc = "done", !.escaped = @ + 1]

\* Variant: a handler that throws ends the loop.
HandlerReturnsThrowStops(e, mh, outcome) ==
    LET u == [e EXCEPT !.units[Len(e.units)].out = outcome]
        next == RunHandlers(u, mh, e.it, e.cur, e.hi + 1)
    IN CASE outcome = "pass" -> next
         [] outcome = "throw" -> Finish([u EXCEPT !.herrors = @ + 1])
         [] outcome = "intercept" -> Finish([u EXCEPT !.handled = TRUE])
         [] outcome = "intercept-reply" ->
                IF e.env.sendOk
                THEN Done([u EXCEPT !.handled = TRUE], Reply("handler-reply", <<>>))
                ELSE RunHandlers([u EXCEPT !.herrors = @ + 1], mh, e.it, e.cur, e.hi + 1)

\* What follows "await handlerObj.handler(ctx)" for what the handler did.
HandlerReturns(e, mh, outcome) ==
    LET u == [e EXCEPT !.units[Len(e.units)].out = outcome]
        next == RunHandlers(u, mh, e.it, e.cur, e.hi + 1)
        caught == RunHandlers([u EXCEPT !.herrors = @ + 1], mh, e.it, e.cur, e.hi + 1)
    IN CASE outcome = "pass" -> next
         [] outcome = "throw" -> caught
         [] outcome = "intercept" -> Finish([u EXCEPT !.handled = TRUE])
         [] outcome = "intercept-reply" ->
                IF e.env.sendOk
                THEN Done([u EXCEPT !.handled = TRUE], Reply("handler-reply", <<>>))
                ELSE caught

\* Variant: only the private scope is enforced.
ScopeNoticePrivateOnly(cmd, ctx) ==
    IF cmd.scope = "private" /\ ctx.is_group THEN "private-only" ELSE ""

\* The scope check of a matched command: the notice to reply with, or "".
ScopeNotice(cmd, ctx) ==
    IF cmd.scope = "private" /\ ctx.is_group THEN "private-only"
    ELSE IF cmd.scope = "group" /\ ~ctx.is_group THEN "group-only"
    ELSE ""

\* Variant: the handler is invoked after the validation reply.
ExecuteCommandInvokesAnyway(e, cmd, rawArgs) ==
    IF Validate(cmd, rawArgs) # <<>>
    THEN [e EXCEPT !.validated = "failed", !.pc = "inCommand", !.invoked = TRUE,
                   !.replies = Append(@, Reply("invalid-arguments",
                                               Validate(cmd, rawArgs)))]
    ELSE [e EXCEPT !.validated = "ok", !.pc = "inCommand", !.invoked = TRUE]

\* executeCommand up to the handler's first suspension.
ExecuteCommand(e, cmd, rawArgs) ==
    IF Validate(cmd, rawArgs) # <<>>
    THEN IF e.env.sendOk
         THEN Done([e EXCEPT !.validated = "failed"],
                   Reply("invalid-arguments", Validate(cmd, rawArgs)))
         ELSE [e EXCEPT !.validated = "failed", !.thrown = TRUE]
    ELSE [e EXCEPT !.validated = "ok", !.pc = "inCommand", !.invoked = TRUE]

\* handleMessage up to its first suspension, for an event that resolved to entry
\* (None: no command matched); mws is what each registered middleware does on
\* the command path, isParseError the class of the matcher's error.
\* The permission check is the step core/bot.ts has after its scope check; the
\* scope notices and the rest are the current Bot's.  An error caught at the
\* end of the command path is logged, and the function goes on to the message
\* handlers.
\* env is the event's environment.  A scope notice is committed without await; the
\* replies of the catch block are awaited inside it; a rejected commit of the
\* validation reply is an error of the command path like any other.
HandleMessage(d, sid, table, mh, ctx, argv, entry, mws, isParseError, env) ==
    LET e == [NoEvent EXCEPT !.ctx = ctx, !.argv = argv, !.cmd = entry, !.env = env] IN
    IF IsSome(entry) THEN
        LET cmd == Val(entry).cmd
            m == [e EXCEPT !.mw = mws, !.entered = RunMiddleware(mws, 1).entered]
            x == ExecuteCommand(m, cmd, RawArgs(Val(entry), argv))
        IN
        IF ScopeNotice(cmd, ctx) # ""
        THEN ReplyOrEscape(e, Reply(ScopeNotice(cmd, ctx), <<>>))
        ELSE IF ~CheckPermission(d, sid, ctx, Val(entry).pluginName, cmd.name,
                                 cmd.permission)
             THEN Finish(e)
        ELSE IF RunChain(mws) = "stop" THEN Finish(m)
        ELSE IF RunChain(mws) = "throw"
             THEN RunHandlers([m EXCEPT !.errors = @ + 1], mh, 0, "", 0)
        ELSE IF x.thrown
             THEN RunHandlers([x EXCEPT !.thrown = FALSE, !.errors = @ + 1], mh, 0, "", 0)
        ELSE x
    ELSE IF UnknownSubCommand(table, argv)
         THEN ReplyOrEscape(e, Caught(table, argv, isParseError))
    ELSE RunHandlers(e, mh, 0, "", 0)

(***************************************************************************)
(* Lifecycle and dispatch as a state machine (Spec)                        *)
(***************************************************************************)
Started == LoadAll(NoRegistries, Files)

BotInit ==
    /\ plugins = Started.plugins
    /\ messageHandlers = Started.messageHandlers
    /\ pluginPaths = Started.pluginPaths
    /\ pathRef = Started.pathRef
    /\ commands = RegisterCommand(Started.plugins)
    /\ ev = NoEvent
    /\ lo = NoLoaderOp

Registries ==
    [plugins |-> plugins, messageHandlers |-> messageHandlers,
     pluginPaths |-> pluginPaths, pathRef |-> pathRef, it |-> ev.it,
     trace |-> <<>>, seen |-> <<>>, thrown |-> FALSE]

\* (r ranges over the one value of w, so that w is worked out once.)
SetRegistries(w) ==
    \E r \in {w} :
        /\ plugins' = r.plugins
        /\ messageHandlers' = r.messageHandlers
        /\ pluginPaths' = r.pluginPaths
        /\ pathRef' = r.pathRef
        /\ ev' = [ev EXCEPT !.it = r.it]

\* watcher "change"
Change ==
    \E f \in DOMAIN Contents, resolves \in BOOLEAN :
        \E exported \in Contents[f] :
            \E r \in {ReloadPlugin(Registries, commands, f, exported, resolves)} :
                /\ SetRegistries(r.w)
                /\ commands' = r.commands
                /\ UNCHANGED <<permVars, nm, cx, lo>>

\* watcher "unlink"
Unlink ==
    \E f \in DOMAIN Contents, resolves \in BOOLEAN :
        /\ SetRegistries(UnloadPlugin(Registries, f, resolves))
        /\ UNCHANGED <<commands, permVars, nm, cx, lo>>

\* An event arrives and resolves to a command.
ArriveCommandOf(argvs, chains, envs) ==
    /\ ev.pc \in {"idle", "done"}
    /\ \E ctx \in EventContexts, argv \in argvs, mws \in chains, env \in envs :
        \E i \in Candidates(commands, argv) :
            /\ Len(mws) = env.nmw
            /\ ev' = HandleMessage(db, selfId, commands, messageHandlers, ctx, argv,
                                   Some(commands[i]), mws, FALSE, env)
            /\ UNCHANGED <<plugins, messageHandlers, commands, pluginPaths, pathRef,
                           permVars, nm, cx, lo>>

\* An event arrives and resolves to no command.
ArriveOtherOf(argvs, envs) ==
    /\ ev.pc \in {"idle", "done"}
    /\ \E ctx \in EventContexts, argv \in argvs, isParseError \in BOOLEAN, env \in envs :
        /\ Candidates(commands, argv) = {}
        /\ ev' = HandleMessage(db, selfId, commands, messageHandlers, ctx, argv, None,
                               <<>>, isParseError, env)
        /\ UNCHANGED <<plugins, messageHandlers, commands, pluginPaths, pathRef,
                       permVars, nm, cx, lo>>

\* No middleware is registered.
ArriveCommand == ArriveCommandOf(Argvs, {<<>>}, {QuietEnv(0)})
ArriveOther == ArriveOtherOf(Argvs, {QuietEnv(0)})

\* The command handler returns, and a reply it left in the buffer is committed;
\* or it throws: the error is logged and the message handlers follow.
CommandReturnOf(outcomes) ==
    /\ ev.pc = "inCommand"
    /\ \E outcome \in outcomes :
        /\ ev' = CASE outcome = "return" -> Finish(ev)
                   [] outcome = "reply" /\ ev.env.sendOk ->
                        Done(ev, Reply("handler-reply", <<>>))
                   [] OTHER ->
                        RunHandlers([ev EXCEPT !.errors = @ + 1], messageHandlers,
                                    0, "", 0)
        /\ UNCHANGED <<plugins, messageHandlers, commands, pluginPaths, pathRef,
                       permVars, nm, cx, lo>>

\* The handlers of the plugins held by Contents do not throw.
CommandReturn == CommandReturnOf({"return", "reply"})

\* The message handler returns true with an empty buffer ("intercept") or with a
\* reply in it ("intercept-reply"), returns otherwise ("pass"), or throws.
\* bounded: lifecycle operations can lengthen the loop, which is then cut off
\* after MaxCalls handlers.
HandlerReturnOf(outcomes, bounded) ==
    /\ ev.pc = "inHandler"
    /\ \E outcome \in outcomes :
        /\ \/ ~bounded
           \/ outcome \in {"intercept", "intercept-reply"}
           \/ Len(ev.calls) < MaxCalls
        /\ ev' = HandlerReturns(ev, messageHandlers, outcome)
        /\ UNCHANGED <<plugins, messageHandlers, commands, pluginPaths, pathRef,
                       permVars, nm, cx, lo>>

\* The handlers of the plugins held by Contents return, intercepting or not.
HandlerReturn == HandlerReturnOf({"pass", "intercept"}, TRUE)

(***************************************************************************)
(* Context.reply: the reply buffer, commit and the transport               *)
(***************************************************************************)
Segs == {"a", "b"}

\* sends: the transport calls made, each with the copy it was given; texts: every
\* segment appended; returns: the commit calls that have returned, each with
\* the buffer as it was when the call returned.
NewContext(isGroup) ==
    [is_group |-> isGroup, reply_message |-> <<>>, isSending |-> FALSE,
     sends |-> <<>>, texts |-> <<>>, returns |-> <<>>, flight |-> 0,
     ncommits |-> 0, pc |-> "handler"]

RECURSIVE Flat(_)
Flat(sends) ==
    IF sends = <<>> THEN <<>> ELSE sends[1].msg \o Flat(Tail(sends))

\* reply.text and the other segment builders
Text(c, seg) ==
    [c EXCEPT !.reply_message = Append(@, seg), !.texts = Append(@, seg)]

Returned(c, kind, before) ==
    [kind |-> kind, before |-> before, after |-> Len(c.sends),
     buf |-> c.reply_message, appended |-> Len(c.texts),
     flushed |-> Len(Flat(c.sends))]

\* Variant: commit does not look at the send-in-progress flag.
CommitWhileSending(c) ==
    IF c.reply_message = <<>>
    THEN [c EXCEPT !.returns = Append(@, Returned(c, "empty", Len(c.sends)))]
    ELSE [c EXCEPT !.isSending = TRUE, !.flight = Len(c.sends),
                   !.reply_message = <<>>,
                   !.sends = Append(@, [op |-> IF c.is_group THEN "sendGroupMessage"
                                                ELSE "sendPrivateMessage",
                                        msg |-> c.reply_message])]

\* reply.commit up to its await: a call with an empty buffer or during a send
\* returns at once; otherwise the buffer is copied, cleared and handed to the
\* transport.
Commit(c) ==
    IF c.reply_message = <<>> \/ c.isSending
    THEN [c EXCEPT !.returns =
              Append(@, Returned(c, IF c.isSending THEN "busy" ELSE "empty",
                                 Len(c.sends)))]
    ELSE [c EXCEPT !.isSending = TRUE, !.flight = Len(c.sends),
                   !.reply_message = <<>>,
                   !.sends = Append(@, [op |-> IF c.is_group THEN "sendGroupMessage"
                                                ELSE "sendPrivateMessage",
                                        msg |-> c.reply_message])]

\* The transport call settles: commit's finally block, then commit returns.
Settle(c) ==
    LET d == [c EXCEPT !.isSending = FALSE] IN
    [d EXCEPT !.returns = Append(@, Returned(d, "sent", c.flight)),
              !.pc = IF c.pc = "awaitCommit" THEN "done" ELSE c.pc]

\* Variant: a commit without the finally block, whose flag stays set when the send
\* fails.
SettleFailsKeepsFlag(c) ==
    [c EXCEPT !.returns = Append(@, Returned(c, "failed", c.flight)),
              !.pc = IF c.pc = "awaitCommit" THEN "done" ELSE c.pc]

\* The transport call rejects: commit's finally block, then commit throws.
SettleFails(c) ==
    LET d == [c EXCEPT !.isSending = FALSE] IN
    [d EXCEPT !.returns = Append(@, Returned(d, "failed", c.flight)),
              !.pc = IF c.pc = "awaitCommit" THEN "done" ELSE c.pc]

\* executeCommand after "await cmd.handler(...)": commit a non-empty buffer.
AfterHandler(c) ==
    IF c.reply_message # <<>>
    THEN LET d == Commit(c) IN
         [d EXCEPT !.pc = IF d.isSending /\ ~c.isSending THEN "awaitCommit" ELSE "done"]
    ELSE [c EXCEPT !.pc = "done"]

CtxInit == PermInit /\ BotInit /\ cx \in {NewContext(g) : g \in BOOLEAN}

\* The handler appends a segment.
DoText ==
    \E seg \in Segs :
        /\ cx.pc = "handler"
        /\ Len(cx.texts) < MaxSegs
        /\ cx' = Text(cx, seg)
        /\ UNCHANGED <<permVars, nm, botVars>>

\* The handler calls commit (awaited or not).
DoCommit ==
    /\ cx.pc = "handler"
    /\ cx.ncommits < MaxCommits
    /\ cx' = [Commit(cx) EXCEPT !.ncommits = @ + 1]
    /\ UNCHANGED <<permVars, nm, botVars>>

SendSettles ==
    /\ cx.isSending
    /\ cx' = Settle(cx)
    /\ UNCHANGED <<permVars, nm, botVars>>

SendFails ==
    /\ cx.isSending
    /\ cx' = SettleFails(cx)
    /\ UNCHANGED <<permVars, nm, botVars>>

CommandHandlerReturns ==
    /\ cx.pc = "handler"
    /\ cx' = AfterHandler(cx)
    /\ UNCHANGED <<permVars, nm, botVars>>

CtxNext == DoText \/ DoCommit \/ SendSettles \/ SendFails \/ CommandHandlerReturns

(***************************************************************************)
(* Dispatch over a fixed set of plugins, with one middleware (DispatchSpec) *)
(***************************************************************************)
DispatchStarted == LoadPlugin(NoRegistries, "f3", <<"G1", "P1">>, TRUE)

DispatchInit ==
    /\ PermInit
    /\ plugins = DispatchStarted.plugins
    /\ messageHandlers = DispatchStarted.messageHandlers
    /\ pluginPaths = DispatchStarted.pluginPaths
    /\ pathRef = DispatchStarted.pathRef
    /\ commands = RegisterCommand(DispatchStarted.plugins)
    /\ ev = NoEvent
    /\ cx = NewContext(FALSE)
    /\ lo = NoLoaderOp

DispatchCommand == ArriveCommandOf(DispatchArgvs, Chains, {QuietEnv(1)})
DispatchOther == ArriveOtherOf(DispatchArgvs, {QuietEnv(1)})
DispatchReturn == CommandReturnOf({"return", "reply", "throw"})

DispatchNext == DispatchCommand \/ DispatchOther \/ DispatchReturn \/ HandlerReturn

(***************************************************************************)
(* Dispatch with two middlewares, handlers that throw and a transport that *)
(* can reject (ChainSpec)                                                  *)
(***************************************************************************)
ChainStarted == LoadPlugin(NoRegistries, "f4", <<"H1", "P1">>, TRUE)

ChainInit ==
    /\ PermInit
    /\ plugins = ChainStarted.plugins
    /\ messageHandlers = ChainStarted.messageHandlers
    /\ pluginPaths = ChainStarted.pluginPaths
    /\ pathRef = ChainStarted.pathRef
    /\ commands = RegisterCommand(ChainStarted.plugins)
    /\ ev = NoEvent
    /\ cx = NewContext(FALSE)
    /\ lo = NoLoaderOp

ChainArgvs ==
    {<<"plugin">>, <<"plugin", "list">>, <<"add", "1", "x">>, <<"add", "1", "2">>,
     <<"hello">>}
\* What two registered middlewares do for one unit.
Behaviours == {"next", "stop", "throw"}
CommandChains == {<<a, b>> : a \in Behaviours, b \in Behaviours}
MessageChains ==
    {<<"next", "next">>, <<"next", "stop">>, <<"stop", "next">>, <<"throw", "next">>}
ChainEnvs ==
    {Env(2, <<c1, c2>>, ok) : c1 \in MessageChains, c2 \in MessageChains, ok \in BOOLEAN}

\* Nothing an event leaves behind is read by the next one (the registries and
\* the permission store do not change here): one event is followed to its end.
ChainCommand == ev.pc = "idle" /\ ArriveCommandOf(ChainArgvs, CommandChains, ChainEnvs)
ChainOther == ev.pc = "idle" /\ ArriveOtherOf(ChainArgvs, ChainEnvs)
ChainCommandReturn == CommandReturnOf({"return", "reply", "throw"})
\* The registries do not change here, so the loop ends without a bound.
ChainHandlerReturn ==
    HandlerReturnOf({"pass", "intercept", "intercept-reply", "throw"}, FALSE)

ChainNext == ChainCommand \/ ChainOther \/ ChainCommandReturn \/ ChainHandlerReturn

(***************************************************************************)
(* The loader from construction on, over units that can fail (LoaderSpec)  *)
(***************************************************************************)
\* What each source unit can export.  No plugin object belongs to two units.
LoaderContents ==
    "f1" :> {<<"A1">>, <<"A1", "T1">>, <<"N1", "C1">>, <<"A1", "A3">>, <<"U1", "A1">>,
             RequireThrows}
    @@ "f2" :> {<<"A2">>, <<"B1", "A2">>, <<"G2">>}

Directories == {<<"f1">>, <<"f1", "f2">>}

Snapshot(w) ==
    [plugins |-> w.plugins, messageHandlers |-> w.messageHandlers,
     pluginPaths |-> w.pluginPaths, pathRef |-> w.pathRef]

LoaderInit ==
    /\ PermInit
    /\ plugins = <<>>
    /\ messageHandlers = <<>>
    /\ pluginPaths = <<>>
    /\ pathRef = <<>>
    /\ commands = <<>>
    /\ ev = NoEvent
    /\ cx = NewContext(FALSE)
    /\ lo = NoLoaderOp

\* start: loadAll (every file of the directory, then registerCommand); the
\* watcher is set up afterwards.
LoaderStart ==
    /\ lo.op = "none"
    /\ \E files \in Directories :
        \E content \in [DOMAIN LoaderContents -> UNION {LoaderContents[f] : f \in DOMAIN LoaderContents}] :
            /\ \A f \in DOMAIN LoaderContents : content[f] \in LoaderContents[f]
            /\ \E w \in {LoadFiles(Registries, files, content)} :
                /\ SetRegistries(w)
                /\ commands' = RegisterCommand(w.plugins)
                /\ lo' = [op |-> "start", file |-> "", resolves |-> TRUE,
                          before |-> Snapshot(Registries), mid |-> Snapshot(Registries),
                          trace |-> w.trace, seen |-> w.seen, table |-> commands]
                /\ UNCHANGED <<permVars, nm, cx>>

\* watcher "change": reloadPlugin.
LoaderChange ==
    /\ lo.op # "none"
    /\ \E f \in DOMAIN LoaderContents, resolves \in BOOLEAN :
        \E exported \in LoaderContents[f] :
            \E r \in {ReloadPlugin(Registries, commands, f, exported, resolves)} :
                /\ SetRegistries(r.w)
                /\ commands' = r.commands
                /\ lo' = [op |-> "change", file |-> f, resolves |-> resolves,
                          before |-> Snapshot(Registries),
                          mid |-> Snapshot(UnloadPlugin(Registries, f, resolves)),
                          trace |-> r.w.trace, seen |-> r.w.seen, table |-> commands]
                /\ UNCHANGED <<permVars, nm, cx>>

\* watcher "unlink": unloadPlugin.
LoaderUnlink ==
    /\ lo.op # "none"
    /\ \E f \in DOMAIN LoaderContents, resolves \in BOOLEAN :
        \E w \in {UnloadPlugin(Registries, f, resolves)} :
            /\ SetRegistries(w)
            /\ lo' = [op |-> "unlink", file |-> f, resolves |-> resolves,
                      before |-> Snapshot(Registries), mid |-> Snapshot(w),
                      trace |-> w.trace, seen |-> w.seen, table |-> commands]
            /\ UNCHANGED <<commands, permVars, nm, cx>>

LoaderNext == LoaderStart \/ LoaderChange \/ LoaderUnlink

(***************************************************************************)
(* NameSpec: parseCommandName on command names                             *)
(***************************************************************************)
MaxNameLen == 5

Chars == {"e", " ", "\n", "<", "-", "["}

RECURSIVE Texts(_)
Texts(n) ==
    IF n = 0 THEN {<<>>}
    ELSE Texts(n - 1) \cup {Append(t, c) : t \in Texts(n - 1), c \in Chars}

EchoName == <<"e", "c", "h", "o", " ", "<", "m", "s", "g", ">">>
PluginEnableName ==
    <<"p", "l", "u", "g", "i", "n", " ", "e", "n", "a", "b", "l", "e", " ",
      "<", "n", "a", "m", "e", ">">>

Names == Texts(MaxNameLen) \cup {EchoName, PluginEnableName}

NameInit ==
    /\ StoreInit /\ BotInit /\ cx = NewContext(FALSE)
    /\ nm \in {[pc |-> "given", name |-> n] : n \in Names}

ParseName ==
    /\ nm.pc = "given"
    /\ nm' = [pc |-> "parsed", name |-> nm.name,
              basename |-> parseCommandNameChars(nm.name)]
    /\ UNCHANGED <<permVars, botVars, cx>>

NameNext == ParseName

NameSpec == NameInit /\ [][NameNext]_vars

Init == PermInit /\ BotInit /\ cx = NewContext(FALSE)

Next == Change \/ Unlink \/ ArriveCommand \/ ArriveOther \/ CommandReturn \/ HandlerReturn

Spec == Init /\ [][Next]_vars

PermSpec == Init /\ [][PermNext]_vars

CtxSpec == CtxInit /\ [][CtxNext]_vars

DispatchSpec == DispatchInit /\ [][DispatchNext]_vars

LoaderSpec == LoaderInit /\ [][LoaderNext]_vars

ChainSpec == ChainInit /\ [][ChainNext]_vars

(***************************************************************************)
(* Claims about lifecycle and dispatch (Spec)                              *)
(***************************************************************************)
Matched == ev.pc # "idle" /\ IsSome(ev.cmd)
\* A step in which an event arrives (lifecycle steps leave an idle event as it is).
Arrival == ev.pc \in {"idle", "done"} /\ ev' # ev
HasCommand(table, name) == \E j \in 1..Len(table) : table[j].cmd.name = name

\* C1: in every state a match can be performed in, the command table holds, for each
\* active plugin, every command name of the plugin's active instance, and no entry of
\* that plugin from another instance: a reload is never seen half done.
C1_ReloadAtomic ==
    \A i \in 1..Len(plugins) :
        /\ \A k \in 1..Len(Val(Catalog[plugins[i].v].commands)) :
              HasCommand(commands, Val(Catalog[plugins[i].v].commands)[k].name)
        /\ \A j \in 1..Len(commands) :
              commands[j].pluginName = plugins[i].k => commands[j].plugin = plugins[i].v

\* After a reload replaced plugin A's instance, an event matched the command that only
\* the new instance has.
C1_Witness ==
    /\ Matched
    /\ Val(ev.cmd).plugin = "A2" /\ Val(ev.cmd).cmd.name = Ping
    /\ MapHas(plugins, "A") /\ MapGet(plugins, "A") = "A2"

\* C2: an arriving event is matched only to a command of a plugin that is active, and
\* the message handlers it starts with belong to a plugin that is active.
C2_NoDispatchAfterUnload ==
    [][Arrival =>
          /\ IsSome(ev'.cmd) => MapHas(plugins, Val(ev'.cmd).pluginName)
          /\ \A i \in 1..Len(ev'.calls) : MapHas(plugins, ev'.calls[i].plugin)]_vars

\* C3: within one event, the handlers invoked for one plugin name are handlers of one
\* plugin object, each invoked once, in declaration order.
C3_HandlersOncePerEvent ==
    \A i, j \in 1..Len(ev.calls) :
        (i < j /\ ev.calls[i].plugin = ev.calls[j].plugin)
            => /\ ev.calls[i].inst = ev.calls[j].inst
               /\ ev.calls[i].idx < ev.calls[j].idx

\* C4: no two entries of the command table have the same basename, and a matched event
\* is dispatched to the only entry of its basename.
C4_UniqueBasename ==
    \A i, j \in 1..Len(commands) :
        parseCommandName(commands[i].cmd.name) = parseCommandName(commands[j].cmd.name)
            => i = j

\* C5: an event that matched a command whose permission check denies the caller gets no
\* reply, its command handler is not invoked and no message handler runs.
C5_DeniedIsSilent ==
    (Matched /\ ~CheckPermission(db, selfId, ev.ctx, Val(ev.cmd).pluginName,
                                 Val(ev.cmd).cmd.name, Val(ev.cmd).cmd.permission))
        => ev.replies = <<>> /\ ~ev.invoked /\ ev.calls = <<>>

(***************************************************************************)
(* Claims about dispatch (DispatchSpec)                                    *)
(***************************************************************************)
Arrived == ev.pc # "idle"
KnownRoot(table, argv) ==
    \E i \in 1..Len(table) : parseCommandName(table[i].cmd.name)[1] = argv[1]
EligibleHandler ==
    \E i \in 1..Len(messageHandlers) :
        \E k \in 1..Len(Val(Catalog[messageHandlers[i].v].messageHandlers)) :
            ~ScopeSkips(Val(Catalog[messageHandlers[i].v].messageHandlers)[k].scope,
                        ev.ctx)
\* The matched command got as far as argument validation and a schema rejected.
Rejected(i) ==
    LET cmd == Val(ev.cmd).cmd
        rawArgs == RawArgs(Val(ev.cmd), ev.argv)
    IN /\ i \in 1..Len(cmd.args.schemas)
       /\ \/ i > Len(rawArgs)
          \/ cmd.args.schemas[i] = "digits" /\ rawArgs[i] \notin {"1", "2"}
ValidationFailed ==
    /\ Matched
    /\ ~ScopeSkips(Val(ev.cmd).cmd.scope, ev.ctx)
    /\ CheckPermission(db, selfId, ev.ctx, Val(ev.cmd).pluginName,
                       Val(ev.cmd).cmd.name, Val(ev.cmd).cmd.permission)
    /\ \A k \in 1..Len(ev.mw) : ev.mw[k] = "next"
    /\ \E i \in 1..Len(Val(ev.cmd).cmd.args.schemas) : Rejected(i)

\* C14 (usage listing): an event with a known first token and no matching
\* command is answered once, with the sorted names of exactly the commands of
\* that root, and no handler runs.
C14_UsageListing ==
    (Arrived /\ ~IsSome(ev.cmd) /\ KnownRoot(commands, ev.argv)) =>
        /\ Len(ev.replies) = 1 /\ ev.replies[1].kind = "usage"
        /\ {ev.replies[1].lines[k] : k \in DOMAIN ev.replies[1].lines}
               = {commands[i].cmd.name : i \in {j \in 1..Len(commands) :
                      parseCommandName(commands[j].cmd.name)[1] = ev.argv[1]}}
        /\ \A k \in 1..(Len(ev.replies[1].lines) - 1) :
               Less(ev.replies[1].lines[k], ev.replies[1].lines[k + 1])
        /\ ~ev.invoked /\ ev.calls = <<>>

\* C15: an event whose first token is the root of no registered command gets
\* no reply from the dispatcher and goes to the message handlers; a usage or
\* invalid-command reply is given only for a known root with no matching command.
C15_NoMatchFallsThrough ==
    Arrived =>
        /\ ~KnownRoot(commands, ev.argv) =>
               /\ ~IsSome(ev.cmd) /\ ev.replies = <<>>
               /\ EligibleHandler => ev.calls # <<>>
        /\ \A k \in DOMAIN ev.replies :
               ev.replies[k].kind \in {"usage", "invalid-command"} =>
                   /\ KnownRoot(commands, ev.argv)
                   /\ ~IsSome(ev.cmd) /\ Candidates(commands, ev.argv) = {}

\* "hello" is no command's root: the first eligible message handler was invoked.
C15_Witness ==
    /\ Arrived /\ ev.argv = <<"hello">> /\ ~KnownRoot(commands, ev.argv)
    /\ ev.replies = <<>> /\ Len(ev.calls) = 1

\* C16: a private event that matches a command of scope all, declared by a plugin
\* of scope group, does not invoke the handler and gets the group-only notice.
C16_PluginScopeEnforced ==
    (Matched /\ Catalog[Val(ev.cmd).plugin].scope = "group"
             /\ Val(ev.cmd).cmd.scope = "all" /\ ~ev.ctx.is_group)
        => ~ev.invoked /\ ev.replies = <<Reply("group-only", <<>>)>>

\* C17: a matched command whose scope excludes the event's chat is not invoked;
\* the event ends with the scope notice as its only reply, and neither the
\* middleware chain nor a message handler ran.
C17_ScopeEnforced ==
    (Matched /\ ScopeSkips(Val(ev.cmd).cmd.scope, ev.ctx)) =>
        /\ ~ev.invoked /\ ev.pc = "done"
        /\ ev.replies = <<Reply(IF ev.ctx.is_group THEN "private-only"
                                 ELSE "group-only", <<>>)>>
        /\ ev.mw = <<>> /\ ev.calls = <<>> /\ ev.errors = 0

\* A private event matched the group command and got the notice.
C17_Witness ==
    /\ Matched /\ Val(ev.cmd).cmd.scope = "group" /\ ~ev.ctx.is_group
    /\ Len(ev.replies) = 1 /\ ev.replies[1].kind = "group-only"

RejectedPositions ==
    {i \in 1..Len(Val(ev.cmd).cmd.args.schemas) : Rejected(i)}

C19_EveryFailingPosition ==
    (ValidationFailed /\ Val(ev.cmd).cmd.args.isArray /\ Len(ev.replies) = 1) =>
        /\ Len(ev.replies[1].lines) = Cardinality(RejectedPositions)
        /\ \A i \in RejectedPositions :
               \E k \in DOMAIN ev.replies[1].lines :
                   ev.replies[1].lines[k][3] = ToString(i)

\* C20: once an error of the command path has been logged, no message handler
\* is invoked for the event.
C20_ErrorAbandonsEvent ==
    ev.errors > 0 => ev.calls = <<>>

(***************************************************************************)
(* Claims about the permission store (PermSpec)                            *)
(***************************************************************************)
Quiet == last.op = "none"
Checked == last.op = "check"
NonSelf(ctx) == ~(selfId > 0 /\ ctx.sender_id = selfId)
Check(ctx, p, c, cfg) == CheckPermission(db, selfId, ctx, p, c, cfg)
RowsOf(p, c) == {r \in db.command_permissions : r.plugin_name = p /\ r.command_name = c}
HasGroupRow(g, p, c) == Copies(db.group_permissions, GroupRow(g, p, c)) > 0
ListHas(col, x) == IsSome(col) /\ Includes(JSONParse(Val(col)), x)
OptHas(list, x) == IsSome(list) /\ Includes(Val(list), x)

\* C6 as stated: a check whose caller id equals the manager's selfId returns allow.
C6_SelfBypassAtAnyId ==
    (Checked /\ last.ctx.sender_id = selfId) => last.result

\* C6, amended: whatever the store and the default config hold, a check whose caller
\* is the bot's own id, once that id is known (selfId > 0), returns allow, in group
\* and in private events.
C6_SelfBypass ==
    /\ Quiet =>
         \A ctx \in Contexts, p \in PluginNames, c \in CommandNames, cfg \in ConfigOpts :
             (selfId > 0 /\ ctx.sender_id = selfId) => Check(ctx, p, c, cfg)
    /\ (Checked /\ selfId > 0 /\ last.ctx.sender_id = selfId) => last.result

\* A check by the bot itself in a group whose group-wide disable row exists was allowed.
C6_Witness ==
    /\ Checked /\ selfId > 0 /\ last.ctx.sender_id = selfId
    /\ last.ctx.is_group /\ HasGroupRow(last.ctx.group_id, None, None)
    /\ last.result

\* C7: a non-self caller in the global user blacklist is denied whatever whitelist
\* lists it, and a caller (in a group event, a group) in the blacklist of the persisted
\* row or of the default config is denied even when that whitelist lists it too.
C7_Denied(ctx, p, c, cfg) ==
    \/ [target_id |-> ctx.sender_id, type |-> "user"] \in db.global_blacklist
    \/ \E r \in RowsOf(p, c) :
          \/ ListHas(r.blacklisted_users, ctx.sender_id)
          \/ ctx.is_group /\ ListHas(r.blacklisted_groups, ctx.group_id)
    \/ IsSome(cfg) /\ OptHas(Val(cfg).blacklistedUsers, ctx.sender_id)
    \/ IsSome(cfg) /\ ctx.is_group /\ OptHas(Val(cfg).blacklistedGroups, ctx.group_id)

C7_BlacklistDominates ==
    /\ Quiet =>
         \A ctx \in Contexts, p \in PluginNames, c \in CommandNames, cfg \in ConfigOpts :
             (NonSelf(ctx) /\ C7_Denied(ctx, p, c, cfg)) => ~Check(ctx, p, c, cfg)
    /\ (Checked /\ NonSelf(last.ctx)
          /\ C7_Denied(last.ctx, last.plugin, last.command, last.config)) => ~last.result

\* A caller listed in both lists of the persisted row was denied.
C7_Witness ==
    /\ Checked /\ NonSelf(last.ctx) /\ ~last.result
    /\ \E r \in RowsOf(last.plugin, last.command) :
          /\ ListHas(r.blacklisted_users, last.ctx.sender_id)
          /\ ListHas(r.users, last.ctx.sender_id)

\* C8: when a persisted row exists for (plugin, command) and the caller passes every
\* check up to and including that row's, the default config causes no deny.
C8_PassesRow(ctx, p, c) ==
    /\ NonSelf(ctx)
    /\ RowsOf(p, c) # {}
    /\ Check(ctx, p, c, None)

C8_DefaultOnlyWithoutRow ==
    (Checked /\ C8_PassesRow(last.ctx, last.plugin, last.command)) => last.result

\* C9: a persisted row whose user (group) whitelist is empty or absent denies nobody
\* for being absent from it: the check answers as it would with that column NULL.
EmptyList(col) == ~IsSome(col) \/ Len(JSONParse(Val(col))) = 0
WithoutEmptyLists(d) ==
    [d EXCEPT !.command_permissions =
        {[r EXCEPT !.users = IF EmptyList(r.users) THEN None ELSE @,
                   !.groups = IF EmptyList(r.groups) THEN None ELSE @] : r \in @}]

C9_EmptyWhitelistAdmits ==
    Checked =>
        last.result = CheckPermission(WithoutEmptyLists(db), selfId, last.ctx,
                                      last.plugin, last.command, last.config)

\* C10: a disable row of the event's group (group-wide, group+plugin, or
\* group+plugin+command) denies a non-self caller of a group event, a disabled plugin
\* denies in group and private events, and rows of a group decide nothing for private
\* events or events of another group.
C10_Disabled(ctx, p, c) ==
    \/ /\ ctx.is_group
       /\ \/ HasGroupRow(ctx.group_id, None, None)
          \/ HasGroupRow(ctx.group_id, Some(p), None)
          \/ HasGroupRow(ctx.group_id, Some(p), Some(c))
    \/ [plugin_name |-> p, disabled |-> 1] \in db.plugin_permissions

OwnGroupRows(d, ctx) ==
    [d EXCEPT !.group_permissions =
        BagRemove(@, {r \in DOMAIN @ : ~(ctx.is_group /\ r.group_id = ctx.group_id)})]

C10_DisableRules ==
    /\ Quiet =>
         \A ctx \in Contexts, p \in PluginNames, c \in CommandNames, cfg \in ConfigOpts :
             /\ (NonSelf(ctx) /\ C10_Disabled(ctx, p, c)) => ~Check(ctx, p, c, cfg)
             /\ Check(ctx, p, c, cfg)
                    = CheckPermission(OwnGroupRows(db, ctx), selfId, ctx, p, c, cfg)
    /\ Checked =>
         /\ (NonSelf(last.ctx) /\ C10_Disabled(last.ctx, last.plugin, last.command))
                => ~last.result
         /\ last.result = CheckPermission(OwnGroupRows(db, last.ctx), selfId, last.ctx,
                                          last.plugin, last.command, last.config)

\* An owner was denied in a group event by that group's group-wide disable row.
C10_Witness ==
    /\ Checked /\ NonSelf(last.ctx) /\ ~last.result
    /\ last.ctx.is_group /\ HasGroupRow(last.ctx.group_id, None, None)
    /\ GetUserLevel(db, last.ctx.sender_id) = "owner"

\* C11: a level requirement, in the default config or in the persisted row, denies
\* exactly the non-self callers whose level is lower: a caller without a stored level is
\* a user, an admin meets user and admin but not owner, an owner meets every level.
StoredLevels(userId) == {r.level : r \in {x \in db.user_permissions : x.user_id = userId}}
Meets(userId, required) ==
    \/ required = "user"
    \/ required = "admin" /\ StoredLevels(userId) \cap {"admin", "owner"} # {}
    \/ required = "owner" /\ "owner" \in StoredLevels(userId)
LevelCfg(l) == [NoCfg EXCEPT !.level = Some(l)]

C11_LevelOrder ==
    /\ Quiet =>
         \A ctx \in Contexts, p \in ManagedPlugins, c \in ManagedCommands,
            l \in {"user", "admin", "owner"} :
             NonSelf(ctx) =>
                 /\ Check(ctx, p, c, Some(LevelCfg(l)))
                        = (Check(ctx, p, c, None) /\ Meets(ctx.sender_id, l))
                 /\ CheckPermission(SetCommandPermission(db, selfId, p, c, LevelCfg(l)),
                                    selfId, ctx, p, c, None)
                        = (CheckPermission(EnableCommand(db, p, c), selfId, ctx, p, c, None)
                              /\ Meets(ctx.sender_id, l))
    /\ (Checked /\ NonSelf(last.ctx) /\ last.config = Some(LevelCfg("admin"))) =>
          last.result = (Check(last.ctx, last.plugin, last.command, None)
                            /\ Meets(last.ctx.sender_id, "admin"))

\* An admin passed a default requirement of admin; the same caller fails owner.
C11_Witness ==
    /\ Checked /\ NonSelf(last.ctx) /\ last.config = Some(LevelCfg("admin"))
    /\ StoredLevels(last.ctx.sender_id) = {"admin"}
    /\ last.result
    /\ ~Check(last.ctx, last.plugin, last.command, Some(LevelCfg("owner")))

\* C12 as stated: a commit called during another commit's send performs no
\* send, the two calls make one send, and the buffer is empty after each returns.
Overlapped(i) ==
    /\ cx.returns[i].kind \in {"sent", "failed"}
    /\ \E j \in 1..(i - 1) :
           cx.returns[j].kind = "busy" /\ cx.returns[j].after = cx.returns[i].after

C12_BufferEmptyAfterBoth ==
    \A i \in DOMAIN cx.returns :
        LET r == cx.returns[i] IN
        /\ r.kind = "busy" => r.after = r.before /\ r.buf = <<>>
        /\ Overlapped(i) => r.after = r.before + 1 /\ r.buf = <<>>

\* C12: a commit called during another commit's send performs no send and
\* returns; never are two sends in flight, so the two calls make exactly one
\* send; after each of the two calls returns the buffer holds exactly the
\* segments appended since the send started (none, when nothing was appended
\* between the calls).
SentReturns == {i \in DOMAIN cx.returns : cx.returns[i].kind \in {"sent", "failed"}}

C12_SecondCommitNoOp ==
    /\ Len(cx.sends) <= Cardinality(SentReturns) + 1
    /\ cx.isSending <=> Len(cx.sends) = Cardinality(SentReturns) + 1
    /\ \A i \in DOMAIN cx.returns :
           LET r == cx.returns[i] IN
           /\ r.kind = "busy" =>
                  /\ r.after = r.before
                  /\ r.buf = SubSeq(cx.texts, r.flushed + 1, r.appended)
           /\ Overlapped(i) =>
                  /\ r.after = r.before + 1
                  /\ r.buf = SubSeq(cx.texts, r.flushed + 1, r.appended)

\* Both calls have returned: the second during the first one's send, one send made.
C12_Witness ==
    /\ \E i \in DOMAIN cx.returns : Overlapped(i)
    /\ Len(cx.sends) = 1
    /\ ~cx.isSending

\* C13: when dispatch of the event completes, every segment the handler
\* appended has been passed to a transport send.
C13_AllSegmentsSent ==
    cx.pc = "done" => Flat(cx.sends) = cx.texts

\* C30 as stated: every management operation, applied twice in a row with the
\* same arguments, leaves the permission store as applying it once does, and every
\* later check answers the same.
Once(Op(_)) == Op(db)
Twice(Op(_)) == Op(Op(db))
Same(Op(_)) == Twice(Op) = Once(Op)

SameChecks(d1, d2) ==
    \A ctx \in Contexts, p \in ManagedPlugins, c \in ManagedCommands, cfg \in CheckConfigs :
        CheckPermission(d1, selfId, ctx, p, c, cfg)
            = CheckPermission(d2, selfId, ctx, p, c, cfg)

KeyedOpsIdempotent ==
    /\ \A u \in UserIds :
        /\ Same(LAMBDA d : AddOwner(d, selfId, u))
        /\ Same(LAMBDA d : RemoveOwner(d, u))
        /\ Same(LAMBDA d : AddAdmin(d, selfId, u))
        /\ Same(LAMBDA d : RemoveAdmin(d, u))
        /\ Same(LAMBDA d : AddToGlobalBlacklist(d, selfId, u, "user"))
        /\ Same(LAMBDA d : RemoveFromGlobalBlacklist(d, u, "user"))
    /\ \A g \in GroupIds :
        /\ Same(LAMBDA d : AddToGlobalBlacklist(d, selfId, g, "group"))
        /\ Same(LAMBDA d : RemoveFromGlobalBlacklist(d, g, "group"))
        /\ Same(LAMBDA d : EnableGroup(d, g))
        /\ \A p \in ManagedPlugins :
            /\ Same(LAMBDA d : EnableGroupPlugin(d, g, p))
            /\ \A c \in ManagedCommands :
                /\ Same(LAMBDA d : DisableGroupCommand(d, g, p, c))
                /\ Same(LAMBDA d : EnableGroupCommand(d, g, p, c))
    /\ \A p \in ManagedPlugins :
        /\ Same(LAMBDA d : DisablePlugin(d, p))
        /\ Same(LAMBDA d : EnablePlugin(d, p))
        /\ \A c \in ManagedCommands :
            /\ Same(LAMBDA d : DisableCommand(d, p, c))
            /\ Same(LAMBDA d : EnableCommand(d, p, c))
            /\ \A cfg \in CallConfigs :
                Same(LAMBDA d : SetCommandPermission(d, selfId, p, c, cfg))

NullKeyOpsIdempotent ==
    \A g \in GroupIds :
        /\ Same(LAMBDA d : DisableGroup(d, g))
        /\ \A p \in ManagedPlugins : Same(LAMBDA d : DisableGroupPlugin(d, g, p))

NullKeyOpsSameChecks ==
    \A g \in GroupIds :
        /\ SameChecks(Twice(LAMBDA d : DisableGroup(d, g)), Once(LAMBDA d : DisableGroup(d, g)))
        /\ \A p \in ManagedPlugins :
            SameChecks(Twice(LAMBDA d : DisableGroupPlugin(d, g, p)),
                       Once(LAMBDA d : DisableGroupPlugin(d, g, p)))

C30_Idempotent == KeyedOpsIdempotent /\ NullKeyOpsIdempotent /\ NullKeyOpsSameChecks

(***************************************************************************)
(* Claims about the loader (LoaderSpec)                                    *)
(***************************************************************************)
ActiveIds(plugs) == {plugs[i].v : i \in 1..Len(plugs)}
SameName(a, b) == Catalog[a].name = Catalog[b].name

\* The hook calls of one loader operation, replayed over the instances that were
\* active before it: onLoad is never called for a name that has an active instance,
\* onUnload only for an instance that is active (so once for each, unless it
\* throws: its instance then stays active).
RECURSIVE HooksInOrder(_, _)
HooksInOrder(active, trace) ==
    IF Len(trace) = 0 THEN TRUE
    ELSE LET kind == Head(trace)[1]
             id == Head(trace)[2]
         IN CASE kind = "onLoad" ->
                    /\ \A a \in active : ~SameName(a, id)
                    /\ HooksInOrder(IF id \in OnLoadThrows THEN active
                                    ELSE active \cup {id}, Tail(trace))
              [] kind = "onUnload" ->
                    /\ id \in active
                    /\ HooksInOrder(IF id \in OnUnloadThrows THEN active
                                    ELSE active \ {id}, Tail(trace))
              [] OTHER -> HooksInOrder(active, Tail(trace))

\* C27: the registry holds at most one instance per name, the message handlers
\* registered under a name are those of the active instance of that name, and
\* within every loader operation the instance that is active under a name gets its
\* onUnload, once, before onLoad of another instance of that name is called.
C27_OneInstancePerName ==
    /\ \A i, j \in 1..Len(plugins) : plugins[i].k = plugins[j].k => i = j
    /\ \A i, j \in 1..Len(messageHandlers) :
           messageHandlers[i].k = messageHandlers[j].k => i = j
    /\ \A i \in 1..Len(messageHandlers) :
           /\ MapHas(plugins, messageHandlers[i].k)
           /\ MapGet(plugins, messageHandlers[i].k) = messageHandlers[i].v
    /\ lo.op # "none" => HooksInOrder(ActiveIds(lo.before.plugins), lo.trace)

\* Unit f2 changed to export a plugin named A while f1's plugin A was active: the
\* old instance got onUnload, then the new one onLoad, and the new one is active.
C27_Witness ==
    /\ lo.op = "change" /\ lo.file = "f2"
    /\ lo.trace = <<<<"onUnload", "A1">>, <<"onLoad", "A2">>>>
    /\ MapGet(plugins, "A") = "A2"
    /\ MapGet(messageHandlers, "A") = "A2"

\* The plugin objects that come from unit f.
UnitIds(f) ==
    UNION {{e[i] : i \in 1..Len(e)} : e \in LoaderContents[f] \ {RequireThrows}}

\* C28 as stated: after an unlink event for a source unit, no plugin that was
\* loaded from that unit is in the active registry.
C28_UnloadRemovesAll ==
    lo.op = "unlink" => \A i \in 1..Len(plugins) : plugins[i].v \notin UnitIds(lo.file)

\* The same, for unlink events whose path still resolves.
C28_ResolvedUnloadRemovesAll ==
    (lo.op = "unlink" /\ lo.resolves) =>
        \A i \in 1..Len(plugins) : plugins[i].v \notin UnitIds(lo.file)

\* A load failed: a descriptor without a name was met, or an exception (of require
\* or of onLoad) reached the catch block.
Failed(trace) == \E k \in 1..Len(trace) : trace[k][1] \in {"invalid", "failed"}

\* C29 as stated: a failed load leaves the plugin registry, the message-handler
\* registry and the loader's two indexes as they were before the load: for the
\* load of the last reload (which starts from the state its unload left), and for
\* every load that could start from the current state.
C29_FailedLoadChangesNothing ==
    /\ (lo.op = "change" /\ lo.resolves /\ Failed(lo.trace)) =>
           Snapshot(Registries) = lo.mid
    /\ \A f \in DOMAIN LoaderContents : \A exported \in LoaderContents[f] :
           LET r == LoadPlugin(Registries, f, exported, TRUE) IN
           Failed(r.trace) => Snapshot(r) = Snapshot(Registries)

\* The part that holds: a unit whose require throws changes nothing.
C29_RequireThrowsChangesNothing ==
    \A f \in DOMAIN LoaderContents :
        Snapshot(LoadPlugin(Registries, f, RequireThrows, TRUE)) = Snapshot(Registries)

(***************************************************************************)
(* Claims about errors, middleware and the handler loop (ChainSpec)        *)
(***************************************************************************)
\* C21 as stated: whatever throws or rejects while an event is dispatched, no
\* exception and no rejected promise leaves handleMessage uncaught.
C21_NothingEscapes == ev.escaped = 0

\* The part that holds: an error of a command handler, a message handler or a
\* middleware, and a rejected commit awaited on the command path or in the
\* handler loop, is caught and logged.
C21_HandlerErrorsCaught ==
    ev.escaped > 0 =>
        /\ ~ev.env.sendOk
        /\ ev.errors = 0 /\ ev.herrors = 0 /\ ev.units = <<>>
        /\ \/ IsSome(ev.cmd) /\ ScopeNotice(Val(ev.cmd).cmd, ev.ctx) # ""
           \/ ~IsSome(ev.cmd) /\ UnknownSubCommand(commands, ev.argv)

\* One unit of work: chain is what each registered middleware does, entered the
\* middlewares that were called, terminal whether the terminal action ran.
InRegistrationOrder(chain, entered, terminal) ==
    /\ Len(entered) <= Len(chain)
    /\ \A i \in 1..Len(entered) :
           /\ entered[i] = i
           /\ i > 1 => chain[i - 1] = "next"
    /\ Len(chain) > 0 => Len(entered) > 0
    /\ Len(entered) < Len(chain) => chain[Len(entered)] # "next"
    /\ terminal <=> \A i \in 1..Len(chain) : chain[i] = "next"

BlockedUnit(u) == u.out \in {"mw-stop", "mw-throw"}

\* C22: for the command execution and for every message-handler execution the
\* registered middlewares are called in registration order from the first, a
\* middleware is called only after the one before it called next, and the terminal
\* action (validation and command handler, or the message handler) runs exactly
\* when every registered middleware called next.
C22_MiddlewareOrder ==
    /\ ev.mw # <<>> =>
           /\ Len(ev.mw) = ev.env.nmw
           /\ InRegistrationOrder(ev.mw, ev.entered, ev.validated # "no")
    /\ ev.mw = <<>> => ev.entered = <<>>
    /\ ev.invoked => ev.validated = "ok"
    /\ \A k \in 1..Len(ev.units) :
           /\ Len(ev.units[k].chain) = ev.env.nmw
           /\ InRegistrationOrder(ev.units[k].chain, ev.units[k].entered,
                                  ~BlockedUnit(ev.units[k]))
    /\ Len(ev.calls) = Cardinality({k \in 1..Len(ev.units) : ~BlockedUnit(ev.units[k])})

\* The second middleware stopped the first message unit after the first called
\* next, and the second unit passed both and its handler ran.
C22_Witness ==
    /\ ev.pc = "done" /\ Len(ev.units) = 2 /\ Len(ev.calls) = 1
    /\ ev.units[1].chain = <<"next", "stop">> /\ ev.units[1].entered = <<1, 2>>
    /\ ev.units[1].out = "mw-stop"
    /\ ev.units[2].chain = <<"next", "next">> /\ ev.units[2].entered = <<1, 2>>
    /\ ev.units[2].out = "pass"

\* C23 as stated: when a middleware returned without calling next for a message
\* handler, that handler is not invoked and no later message handler is invoked
\* for the event.
C23_StopDropsEvent ==
    \A k \in 1..Len(ev.units) :
        ev.units[k].out = "mw-stop" =>
            \A j \in k..Len(ev.units) : BlockedUnit(ev.units[j])

\* The part that holds: the wrapped handler is not invoked, and the event is handed
\* to every later handler in scope, each through the middleware chain again.
C23_StopSkipsOneHandler ==
    \A k \in 1..Len(ev.units) :
        ev.units[k].out = "mw-stop" =>
            /\ \A c \in 1..Len(ev.calls) :
                   ~(ev.calls[c].inst = ev.units[k].inst /\ ev.calls[c].idx = ev.units[k].idx)
            /\ ~ev.handled \/ k < Len(ev.units)

Intercepted(u) == u.out \in {"intercept", "intercept-reply"}
HandlerReplies == {i \in 1..Len(ev.replies) : ev.replies[i].kind = "handler-reply"}

\* What C24 asks of a unit whose handler returned true.
EndsEvent(k) ==
    /\ k = Len(ev.units) /\ ev.pc = "done"
    /\ ev.handled
    /\ (ev.units[k].out = "intercept-reply" /\ ev.env.sendOk) =>
           Cardinality(HandlerReplies) = 1

\* C24 as stated: once a message handler has returned true, no later message
\* handler is invoked for the event, a reply in the buffer is committed once, and
\* the event is marked handled.
C24_InterceptEndsEvent ==
    \A k \in 1..Len(ev.units) : Intercepted(ev.units[k]) => EndsEvent(k)

\* The part that holds: the same, unless the commit of the reply is rejected.
C24_InterceptEndsEventIfSent ==
    \A k \in 1..Len(ev.units) :
        (Intercepted(ev.units[k])
            /\ (ev.units[k].out = "intercept-reply" => ev.env.sendOk)) => EndsEvent(k)

\* A scope excludes an event: private excludes group events, group private ones.
Excludes(scope, ctx) == scope # "all" /\ ((scope = "group") # ctx.is_group)

\* The handlers in scope of an event, in the order of the Map and, within a
\* plugin, of the plugin's array.
HandlersInScope(id, ctx) ==
    SelectSeq([h \in 1..Len(Val(Catalog[id].messageHandlers)) |-> [inst |-> id, idx |-> h]],
              LAMBDA p : ~Excludes(Val(Catalog[id].messageHandlers)[p.idx].scope, ctx))

RECURSIVE EligibleFrom(_, _)
EligibleFrom(mh, ctx) ==
    IF mh = <<>> THEN <<>>
    ELSE HandlersInScope(Head(mh).v, ctx) \o EligibleFrom(Tail(mh), ctx)

Eligible == EligibleFrom(messageHandlers, ev.ctx)
AtPlace(j) == ev.units[j].inst = Eligible[j].inst /\ ev.units[j].idx = Eligible[j].idx
AllNext(chain) == \A i \in 1..Len(chain) : chain[i] = "next"

\* C25: when a message handler throws, the error is caught and logged, and every
\* later handler in scope, of the same plugin and of later plugins, is reached in
\* its turn and invoked (when the middlewares call next for it), unless a handler
\* in between intercepted the event.
C25_ThrowDoesNotStopLoop ==
    \A k \in 1..Len(ev.units) :
        ev.units[k].out = "throw" =>
            /\ ev.herrors >= 1 /\ ev.escaped = 0
            /\ \A j \in (k + 1)..Len(Eligible) :
                   \/ /\ j <= Len(ev.units)
                      /\ AtPlace(j)
                      /\ AllNext(ev.units[j].chain) => ~BlockedUnit(ev.units[j])
                   \/ /\ j > Len(ev.units)
                      /\ ev.pc = "inHandler"
                   \/ /\ j > Len(ev.units)
                      /\ Len(ev.units) > k
                      /\ ev.handled /\ Intercepted(ev.units[Len(ev.units)])

\* H's first handler threw for a private event and P's handler was invoked next.
C25_Witness ==
    /\ ev.pc = "done" /\ ~ev.ctx.is_group /\ ev.herrors = 1
    /\ Len(ev.units) = 2
    /\ ev.units[1].inst = "H1" /\ ev.units[1].out = "throw"
    /\ ev.units[2].inst = "P1" /\ ev.units[2].out = "pass"
    /\ Len(ev.calls) = 2

\* The units started are the handlers in scope, in order, none left out and none
\* of a scope that excludes the event; at most the last one is running.
InOrderOneAtATime ==
    /\ Len(ev.units) <= Len(Eligible)
    /\ \A j \in 1..Len(ev.units) :
           /\ AtPlace(j)
           /\ ~Excludes(Val(Catalog[ev.units[j].inst].messageHandlers)[ev.units[j].idx].scope,
                        ev.ctx)
           /\ ev.units[j].out = "running" => j = Len(ev.units) /\ ev.pc = "inHandler"
    /\ ev.pc = "done" => ev.handled \/ IsSome(ev.cmd) \/ UnknownSubCommand(commands, ev.argv)
                            \/ Len(ev.units) = Len(Eligible)

KeyedTablesUnique ==
    /\ \A r, q \in db.user_permissions : r.user_id = q.user_id => r = q
    /\ \A r, q \in db.plugin_permissions : r.plugin_name = q.plugin_name => r = q
    /\ \A r, q \in db.command_permissions :
           (r.plugin_name = q.plugin_name /\ r.command_name = q.command_name) => r = q

\* C31 as stated: after any sequence of management operations every table holds
\* at most one row per natural key, group_permissions rows with a NULL plugin_name
\* or command_name included.
C31_OneRowPerKey ==
    /\ KeyedTablesUnique
    /\ \A r \in DOMAIN db.group_permissions : Copies(db.group_permissions, r) <= 1

\* The part that holds: group_permissions rows with a full key are not repeated.
C31_FullKeyRowsUnique ==
    /\ KeyedTablesUnique
    /\ \A r \in DOMAIN db.group_permissions :
           (IsSome(r.plugin_name) /\ IsSome(r.command_name)) =>
               Copies(db.group_permissions, r) <= 1

\* The ids a stored list column of the row of (pluginName, commandName) holds.
StoredIds(d, pluginName, commandName, column) ==
    LET rows == {r \in d.command_permissions :
                    r.plugin_name = pluginName /\ r.command_name = commandName}
    IN IF rows = {} THEN <<>>
       ELSE LET col == (CHOOSE r \in rows : TRUE)[column]
            IN IF IsSome(col) THEN JSONParse(Val(col)) ELSE <<>>

\* The row setCommandPermission(pluginName, commandName, config) persists holds
\* the id in neither its user whitelist nor its user blacklist.
StoresWithout(id, pluginName, commandName, config) ==
    LET d == SetCommandPermission(db, selfId, pluginName, commandName, config)
    IN /\ ~Includes(StoredIds(d, pluginName, commandName, "users"), id)
       /\ ~Includes(StoredIds(d, pluginName, commandName, "blacklisted_users"), id)

\* The configs whose user lists the claim ranges over: every list of user ids as
\* the whitelist, as the blacklist, and the bot's id in both.
ListConfigs ==
    {[NoCfg EXCEPT !.users = l] : l \in IdLists(UserIds)}
    \cup {[NoCfg EXCEPT !.blacklistedUsers = l] : l \in IdLists(UserIds)}
    \cup {[NoCfg EXCEPT !.users = Some(<<BotId>>), !.blacklistedUsers = Some(<<BotId>>)]}

\* C32 as stated: after setCommandPermission the persisted row's user whitelist and
\* user blacklist do not contain the bot's own id, whatever lists were passed.
C32_SelfNeverStored ==
    \A p \in ManagedPlugins, c \in ManagedCommands, cfg \in ListConfigs :
        StoresWithout(BotId, p, c, cfg)

\* C32, amended: once the manager knows the bot's id (selfId > 0), the row persisted
\* by setCommandPermission holds that id in neither the user whitelist nor the user
\* blacklist, whatever lists were passed.  (Evaluated between calls: every store
\* is reached there.)
C32_KnownSelfNeverStored ==
    (Quiet /\ selfId > 0) =>
        \A p \in ManagedPlugins, c \in ManagedCommands, cfg \in ListConfigs :
            StoresWithout(selfId, p, c, cfg)

\* The store is what setCommandPermission leaves when called, on the empty store and
\* with the bot's id known, with a whitelist that names the bot.
C32_Witness ==
    /\ selfId > 0
    /\ \E p \in ManagedPlugins, c \in ManagedCommands, cfg \in CallConfigs :
        /\ IsSome(cfg.users) /\ Includes(Val(cfg.users), selfId)
        /\ db = SetCommandPermission(EmptyDb, selfId, p, c, cfg)
        /\ StoredIds(db, p, c, "users") = <<>>

\* What the row of (pluginName, commandName) stores besides its disabled flag; a
\* command without a row stores nothing.
StoredSettings(d, pluginName, commandName) ==
    LET rows == {r \in d.command_permissions :
                    r.plugin_name = pluginName /\ r.command_name = commandName}
        cols == {"level", "users", "groups", "blacklisted_users", "blacklisted_groups"}
    IN IF rows = {} THEN [k \in cols |-> None]
       ELSE [k \in cols |-> (CHOOSE r \in rows : TRUE)[k]]

\* C37 as stated: disableCommand and enableCommand change only the disabled flag;
\* the level, whitelists and blacklists stored earlier by setCommandPermission are
\* the same after disableCommand, and after disableCommand followed by enableCommand.
C37_DisableEnableKeepsSettings ==
    \A p \in ManagedPlugins, c \in ManagedCommands :
        /\ StoredSettings(DisableCommand(db, p, c), p, c) = StoredSettings(db, p, c)
        /\ StoredSettings(EnableCommand(db, p, c), p, c) = StoredSettings(db, p, c)
        /\ StoredSettings(EnableCommand(DisableCommand(db, p, c), p, c), p, c)
               = StoredSettings(db, p, c)

\* What does hold: a command whose row stores no level and no list keeps that.
C37_EmptySettingsKept ==
    \A p \in ManagedPlugins, c \in ManagedCommands :
        StoredSettings(db, p, c) = StoredSettings(EmptyDb, p, c) =>
            StoredSettings(EnableCommand(DisableCommand(db, p, c), p, c), p, c)
                = StoredSettings(db, p, c)

\* removeAdmin and removeOwner change a user's level only when the user has exactly
\* the level removed, and change no other user's level.
RemovalsExact ==
    \A u, v \in UserIds :
        /\ (GetUserLevel(db, v) # "admin" \/ v # u) =>
               GetUserLevel(RemoveAdmin(db, u), v) = GetUserLevel(db, v)
        /\ (GetUserLevel(db, v) # "owner" \/ v # u) =>
               GetUserLevel(RemoveOwner(db, u), v) = GetUserLevel(db, v)

\* Granting a level leaves a user at least as high as before.
GrantsNeverLower ==
    \A u \in UserIds :
        /\ IndexOf(GetUserLevel(AddAdmin(db, selfId, u), u))
               >= IndexOf(GetUserLevel(db, u))
        /\ IndexOf(GetUserLevel(AddOwner(db, selfId, u), u))
               >= IndexOf(GetUserLevel(db, u))

\* C38 as stated: granting a level never lowers one, so an owner stays owner after
\* addAdmin; removeAdmin and removeOwner change a user's level only when the user
\* has exactly that level.
C38_GrantNeverLowers == GrantsNeverLower /\ RemovalsExact

(***************************************************************************)
(* Claims about command names (NameSpec)                                   *)
(***************************************************************************)
Parsed == nm.pc = "parsed"

Least(S) == CHOOSE i \in S : \A j \in S : i <= j
Greatest(S) == CHOOSE i \in S : \A j \in S : j <= i

\* A text without the whitespace around it.
Trimmed(text) ==
    LET inked == {i \in 1..Len(text) : text[i] \notin Whitespace}
    IN IF inked = {} THEN <<>> ELSE SubSeq(text, Least(inked), Greatest(inked))

\* Where the tokens of a name that start with "-", "<" or "[" begin.
MarkedTokens(name) ==
    {i \in 1..Len(name) :
        name[i] \in Markers /\ (i = 1 \/ name[i - 1] \in Whitespace)}

\* The name cut before position i.
CutBefore(name, i) == Trimmed(SubSeq(name, 1, i - 1))

RunStart(name, j) ==
    Least({i \in 1..(j - 1) : \A k \in i..(j - 1) : name[k] \in Whitespace})

\* What follows the line that position j is on.
AfterLine(name, j) ==
    LET ends == {k \in j..Len(name) : name[k] \in LineEnds}
    IN IF ends = {} THEN <<>> ELSE SubSeq(name, Least(ends), Len(name))

RegisteredElsewhere(snap, pluginName, f) ==
    /\ MapHas(snap.plugins, pluginName)
    /\ pluginName \in DOMAIN snap.pluginPaths
    /\ snap.pluginPaths[pluginName] # f

\* C39 as stated: an unlink event for a source unit unloads only plugins whose
\* current registration came from that unit; an instance registered from another
\* unit under the same name stays in the active registry.
C39_UnloadOnlyOwnPlugins ==
    lo.op = "unlink" =>
        \A i \in 1..Len(lo.before.plugins) :
            LET pluginName == lo.before.plugins[i].k IN
            RegisteredElsewhere(lo.before, pluginName, lo.file) =>
                /\ MapHas(plugins, pluginName)
                /\ MapGet(plugins, pluginName) = lo.before.plugins[i].v

\* The part that holds: a name that the unlinked unit never registered is untouched.
C39_OtherNamesUntouched ==
    lo.op = "unlink" =>
        \A i \in 1..Len(lo.before.plugins) :
            LET pluginName == lo.before.plugins[i].k IN
            (\A id \in UnitIds(lo.file) : Catalog[id].name # pluginName) =>
                /\ MapHas(plugins, pluginName)
                /\ MapGet(plugins, pluginName) = lo.before.plugins[i].v

\* The commands of a plugin object are in a command table.
CommandsIn(table, id) ==
    IsSome(Catalog[id].commands) =>
        \A k \in 1..Len(Val(Catalog[id].commands)) :
            \E i \in 1..Len(table) :
                /\ table[i].plugin = id
                /\ table[i].cmd = Val(Catalog[id].commands)[k]

\* No onLoad call of the last loader operation saw its plugin recorded as active.
NotActiveDuringOnLoad ==
    lo.op # "none" => \A k \in 1..Len(lo.seen) : ~lo.seen[k].active

\* C34 as stated: when a plugin's onLoad is invoked during a load, the plugin's
\* commands are already in the Command Table and its message handlers are already
\* registered, and the plugin is recorded as active only after onLoad returned.
C34_RegisteredBeforeOnLoad ==
    /\ NotActiveDuringOnLoad
    /\ lo.op # "none" =>
        \A k \in 1..Len(lo.seen) :
            LET id == lo.seen[k].plugin IN
            /\ CommandsIn(lo.table, id)
            /\ IsSome(Catalog[id].messageHandlers) => lo.seen[k].handlers

Scopes == {"private", "group", "all"}
ScopeOpts == {None} \cup {Some(x) : x \in Scopes}

\* The rule as the claim gives it: plugin scope all permits every command scope,
\* group only group, private only private.
Permits(pluginScope, commandScope) ==
    pluginScope = "all" \/ commandScope = pluginScope

Declared(scope) == IF IsSome(scope) THEN Val(scope) ELSE "all"

CommandsOf(id) ==
    IF IsSome(Catalog[id].commands)
    THEN {Val(Catalog[id].commands)[i] : i \in 1..Len(Val(Catalog[id].commands))}
    ELSE {}

Loaded == lo.op \in {"start", "change"}

\* The plugin objects the last loader operation checked and registered, and the
\* <<plugin, command name>> pairs it warned about.
CheckedPlugins == {lo.seen[k].plugin : k \in 1..Len(lo.seen)}
Warned ==
    {<<lo.trace[k][2], lo.trace[k][3]>> :
        k \in {n \in 1..Len(lo.trace) : lo.trace[n][1] = "warn"}}

\* A command the load warned about is in the command table while its plugin is the
\* active one.
FlaggedStillRegistered ==
    Loaded =>
        \A f \in Warned :
            (MapHas(plugins, NameOf(f[1])) /\ MapGet(plugins, NameOf(f[1])) = f[1]) =>
                \E i \in 1..Len(commands) :
                    commands[i].plugin = f[1] /\ commands[i].cmd.name = f[2]

\* C35 as stated: the load-time scope check flags a command exactly when the
\* plugin's scope does not permit the command's scope (all permits private, group
\* and all; group only group; private only private; undeclared counts as all), and
\* a flagged command is still registered.
C35_FlagsExactlyUnpermitted ==
    /\ Loaded =>
           \A id \in CheckedPlugins : \A cmd \in CommandsOf(id) :
               (<<id, cmd.name>> \in Warned) <=> ~Permits(Catalog[id].scope, cmd.scope)
    /\ FlaggedStillRegistered

\* What holds: a command is flagged exactly when its scope is wider than its
\* plugin's (private < group < all), and a flagged command is still registered.
C35_FlagsWiderScopes ==
    /\ Loaded =>
           \A id \in CheckedPlugins : \A cmd \in CommandsOf(id) :
               (<<id, cmd.name>> \in Warned) <=>
                   scopeHierarchy[cmd.scope] > scopeHierarchy[Catalog[id].scope]
    /\ FlaggedStillRegistered
    /\ \A p, c \in ScopeOpts :
           (p # Some("group") \/ c # Some("private")) =>
               (isScopeAllowed(p, c) <=> Permits(Declared(p), Declared(c)))

\* An onUnload of the last loader operation threw.
UnloadThrew ==
    \E k \in 1..Len(lo.trace) :
        lo.trace[k][1] = "onUnload" /\ lo.trace[k][2] \in OnUnloadThrows

\* C40 as stated: if a plugin's onUnload throws during an unload, the plugin is
\* still removed from the active registry and from the message-handler registry,
\* the loader's name and path indexes for it are cleared, and the remaining plugins
\* of the same source unit are still unloaded.
C40_ThrowingOnUnloadStillUnloads ==
    (lo.op = "unlink" /\ lo.resolves /\ UnloadThrew) =>
        /\ lo.file \notin DOMAIN pathRef
        /\ \A k \in 1..Len(lo.before.pathRef[lo.file]) :
               LET pluginName == lo.before.pathRef[lo.file][k] IN
               /\ ~MapHas(plugins, pluginName)
               /\ ~MapHas(messageHandlers, pluginName)
               /\ pluginName \notin DOMAIN pluginPaths

\* What the code does instead: the unload stops at the throwing onUnload, whose
\* plugin stays active, and the path index is left as it was.
C40_ThrowingOnUnloadStops ==
    (lo.op = "unlink" /\ lo.resolves /\ UnloadThrew) =>
        /\ pathRef = lo.before.pathRef
        /\ lo.trace[Len(lo.trace)][2] \in OnUnloadThrows
        /\ MapHas(plugins, NameOf(lo.trace[Len(lo.trace)][2]))

(***************************************************************************)
(* Further claims about the Context (CtxSpec)                              *)
(***************************************************************************)
\* The commits whose transport call has settled, and the sends still in flight.
Settled(c) == {k \in 1..Len(c.returns) : c.returns[k].kind \in {"sent", "failed"}}
InFlight(c) == Len(c.sends) - Cardinality(Settled(c))

\* C36: the send-in-progress flag is set exactly while a commit's transport send is
\* in flight, and at most one is; once the commits that sent have returned or
\* thrown, a failed send included, the flag is clear, and a commit on a non-empty
\* buffer then performs a send.
C36_FlagOnlyWhileSending ==
    /\ InFlight(cx) \in {0, 1}
    /\ cx.isSending <=> InFlight(cx) = 1
    /\ \A k \in Settled(cx) : cx.returns[k].after = Len(cx.sends) => ~cx.isSending
    /\ (InFlight(cx) = 0 /\ cx.reply_message # <<>>) =>
           /\ Len(Commit(cx).sends) = Len(cx.sends) + 1
           /\ Commit(cx).sends[Len(cx.sends) + 1].msg = cx.reply_message

\* A send failed, and a later commit on the same Context performed a send.
C36_Witness ==
    \E k \in 1..Len(cx.returns) :
        /\ cx.returns[k].kind = "failed"
        /\ Len(cx.sends) > cx.returns[k].after
        /\ cx.isSending

====
